---- MODULE Spec2Model ----
(***************************************************************************)
(* HelloCSV: the validation engine (fieldIsRequired, automatic validators, *)
(* full and incremental validation, incremental merge) and the state       *)
(* builders that fold pending actions and drive the debounced validation.  *)
(***************************************************************************)
EXTENDS Integers, Sequences, FiniteSets, TLC

VARIABLES
    sheetDefinitions,   \* importerDefinition.sheets, the first argument of the validation calls
    sheetStates,        \* argument sheetStates of the validation calls
    existingErrors,     \* argument existingErrors of applyValidationsToSpecificRows
    dirtyRows,          \* argument dirtyRows of applyValidationsToSpecificRows
    requiredCall,       \* the last call of fieldIsRequired: its arguments and its result
    fullResult,         \* the promise returned by the applyValidations call
    incResult,          \* the promise returned by the applyValidationsToSpecificRows call
    calls,              \* history: the validation calls made one after the other
    initialState,       \* StateBuilder.initialState
    buildSteps,         \* StateBuilder.buildSteps
    builtState,         \* the promise returned by the last StateBuilder.getState call
    onDataColumnsMapped,\* importerDefinition.onDataColumnsMapped
    confirming,         \* the StateBuilder.confirmMappings call that awaits, and what it holds
    state,              \* the state of the store that dispatch feeds through the reducer
    validationTimeoutId,\* InnerStateBuilder.validationTimeoutId
    timers,             \* the timeouts that are scheduled: neither fired nor cleared
    runs,               \* the runValidation calls that await getState
    runIdCounter,       \* the number of run ids generateValidationRunId has handed out
    mandated,           \* history: the dispatchChange calls that mandated a validation
    started,            \* history: the run ids of the runValidation calls, in start order
    completions,        \* history: the VALIDATION_COMPLETED actions dispatched so far
    dispatchLog,        \* history: every action passed to dispatch, with the call that passed it
    persistence,        \* buildState: persistenceConfig and what the storage will do
    loadedState,        \* the promise returned by the buildState call
    pipeline,           \* a Pipeline: its steps
    transformed,        \* the last call of Pipeline.transform: its argument and its result
    transformations     \* the sheet states returned by the transformation calls

engineVars ==
    <<sheetStates, existingErrors, dirtyRows, requiredCall, fullResult, incResult, calls>>
builderVars == <<initialState, buildSteps, builtState, onDataColumnsMapped, confirming>>

orchVars ==
    <<state, validationTimeoutId, timers, runs, runIdCounter, mandated, started, completions,
      dispatchLog>>

standaloneVars == <<persistence, loadedState, pipeline, transformed, transformations>>

vars == <<sheetDefinitions, engineVars, builderVars, orchVars, standaloneVars>>

(***************************************************************************)
(* Bounds of the model.                                                    *)
(***************************************************************************)
MaxRows == 2          \* rows per sheet state
MaxValidators == 2    \* explicit validator definitions per column
MaxExisting == 2      \* existing errors handed to the incremental merge
MaxSteps == 2         \* pending actions of a state builder

(***************************************************************************)
(* Generic helpers on sequences.                                           *)
(***************************************************************************)
RECURSIVE Flat(_)
\* Array.prototype.flat(): the concatenation of a sequence of sequences.
Flat(ss) == IF Len(ss) = 0 THEN <<>> ELSE Head(ss) \o Flat(Tail(ss))

SeqsUpTo(S, n) == UNION {[1..k -> S] : k \in 0..n}

Range(s) == {s[i] : i \in DOMAIN s}

\* Every order of the elements of s.
Orders(s) == {[i \in 1..Len(s) |-> s[p[i]]] : p \in Permutations(1..Len(s))}

Count(s, e) == Cardinality({i \in DOMAIN s : s[i] = e})

(***************************************************************************)
(* Cell values.  A row maps some column ids to values; a column id that is *)
(* no key of the row reads as undefined.                                   *)
(***************************************************************************)
Undefined == "undefined"

cellValue(row, columnId) == IF columnId \in DOMAIN row THEN row[columnId] ELSE Undefined

isEmptyCell(value) == value = Undefined \/ value = ""

hasData(row) == \E k \in DOMAIN row : ~isEmptyCell(row[k])

(***************************************************************************)
(* Validator definitions.  when, when present, names a predicate on the    *)
(* row; a custom validator returns its message on the values of bad,       *)
(* throws synchronously on the values of throws and returns a promise that *)
(* rejects on the values of rejects.                                       *)
(***************************************************************************)
Required == [validate |-> "required"]
RequiredWhen == [validate |-> "required", when |-> "bIsX"]
Custom == [validate |-> "custom", bad |-> {"y"}, throws |-> {"z"}, rejects |-> {"w"}]

ValidatorCatalog == {Required, RequiredWhen, Custom}

whenHolds(name, row) ==
    CASE name = "bIsX" -> cellValue(row, "b") = "x"
      [] OTHER -> FALSE


Valid == [kind |-> "valid", message |-> Undefined]
Message(m) == [kind |-> "message", message |-> m]
Throws == [kind |-> "throw", message |-> Undefined]
Rejects == [kind |-> "reject", message |-> Undefined]

\* buildValidatorFromDefinition(definition).isValid(value, row)
isValid(definition, value, row) ==
    CASE definition.validate = "required" ->
            IF "when" \in DOMAIN definition /\ ~whenHolds(definition.when, row)
            THEN Valid
            ELSE IF isEmptyCell(value) THEN Message("required") ELSE Valid
      [] definition.validate = "includes" ->
            IF value \in Range(definition.values) THEN Valid ELSE Message("includes")
      [] definition.validate = "custom" ->
            IF value \in definition.throws THEN Throws
            ELSE IF value \in definition.rejects THEN Rejects
            ELSE IF value \in definition.bad THEN Message("custom")
            ELSE Valid

(***************************************************************************)
(* fieldIsRequired.  options is the second argument: a record that may     *)
(* hold skipConditionCheck, or the empty record when it is left out.       *)
(***************************************************************************)
NoOptions == <<>>

\* fieldIsRequired with the bug of never looking at the condition.
fieldIsRequiredIgnoringWhen(columnDefinition, options) ==
    /\ "validators" \in DOMAIN columnDefinition
    /\ \E i \in DOMAIN columnDefinition.validators :
          columnDefinition.validators[i].validate = "required"

fieldIsRequired(columnDefinition, options) ==
    IF "validators" \in DOMAIN columnDefinition /\ Len(columnDefinition.validators) > 0
    THEN LET found == {i \in DOMAIN columnDefinition.validators :
                          columnDefinition.validators[i].validate = "required"}
             isRequired == columnDefinition.validators[CHOOSE i \in found :
                                                          \A j \in found : i <= j]
         IN  /\ found # {}
             /\ IF "skipConditionCheck" \in DOMAIN options /\ options.skipConditionCheck
                THEN TRUE
                ELSE "when" \notin DOMAIN isRequired
    ELSE FALSE

(***************************************************************************)
(* Automatic validators of a column type.                                  *)
(***************************************************************************)
\* extractReferenceColumnPossibleValues: the distinct present values of the
\* referenced column over the sheet states, in order of first appearance.
RECURSIVE Distinct(_)
Distinct(s) ==
    IF Len(s) = 0 THEN <<>>
    ELSE LET rest == Distinct(SubSeq(s, 1, Len(s) - 1))
             last == s[Len(s)]
         IN  IF last \in Range(rest) THEN rest ELSE Append(rest, last)

extractReferenceColumnPossibleValues(columnDefinition, allData) ==
    LET target == columnDefinition.typeArguments
        cells(sheet) ==
            IF sheet.sheetId = target.sheetId
            THEN [r \in 1..Len(sheet.rows) |-> cellValue(sheet.rows[r], target.sheetColumnId)]
            ELSE <<>>
        all == Flat([s \in 1..Len(allData) |-> cells(allData[s])])
    IN  Distinct(SelectSeq(all, LAMBDA v : ~isEmptyCell(v)))

\* automaticFieldValidators with the last declared enumeration value left out.
automaticFieldValidatorsDroppingLast(columnDefinition, allData) ==
    (IF columnDefinition.type = "enum"
     THEN <<[validate |-> "includes",
             values |-> [i \in 1..(Len(columnDefinition.typeArguments.values) - 1) |->
                            columnDefinition.typeArguments.values[i].value]]>>
     ELSE <<>>)
    \o
    (IF columnDefinition.type = "reference"
     THEN <<[validate |-> "includes",
             values |-> extractReferenceColumnPossibleValues(columnDefinition, allData)]>>
     ELSE <<>>)

automaticFieldValidators(columnDefinition, allData) ==
    (IF columnDefinition.type = "enum"
     THEN <<[validate |-> "includes",
             values |-> [i \in 1..Len(columnDefinition.typeArguments.values) |->
                            columnDefinition.typeArguments.values[i].value]]>>
     ELSE <<>>)
    \o
    (IF columnDefinition.type = "reference"
     THEN <<[validate |-> "includes",
             values |-> extractReferenceColumnPossibleValues(columnDefinition, allData)]>>
     ELSE <<>>)

(***************************************************************************)
(* Full validation of one sheet.  A call launches one evaluation per       *)
(* (column, row, validator) in the order of the nested loops; a validator  *)
(* that throws ends the loops there.  The errors are pushed in the order   *)
(* in which the evaluations resolve, which is any order.                   *)
(***************************************************************************)
Fulfilled(value, launched) == [status |-> "fulfilled", value |-> value, launched |-> launched]
Rejected(launched) == [status |-> "rejected", value |-> <<>>, launched |-> launched]
Pending == [status |-> "pending", value |-> <<>>, launched |-> <<>>]

\* The evaluations up to and including the first one that throws.
UntilThrow(launches) ==
    LET thrown == {i \in DOMAIN launches : launches[i].result.kind = "throw"}
    IN  IF thrown = {} THEN launches
        ELSE SubSeq(launches, 1, CHOOSE i \in thrown : \A j \in thrown : i <= j)

\* The errors of the evaluations that returned a message, in launch order.
ErrorsOf(launches) ==
    LET withMessage == SelectSeq(launches, LAMBDA l : l.result.kind = "message")
    IN  [i \in 1..Len(withMessage) |->
            [sheetId |-> withMessage[i].sheetId, columnId |-> withMessage[i].columnId,
             rowIndex |-> withMessage[i].rowIndex, message |-> withMessage[i].result.message]]

Failed(launches) == \E i \in DOMAIN launches : launches[i].result.kind \in {"throw", "reject"}

\* Joined with the bug of returning validationErrors once the first evaluations
\* have resolved, without awaiting the others.
JoinedWithoutAwaitingAll(launches) ==
    IF Failed(launches) THEN {Rejected(launches)}
    ELSE {Fulfilled(SubSeq(errors, 1, n), launches) :
            errors \in Orders(ErrorsOf(launches)), n \in 0..Len(ErrorsOf(launches))}

\* await Promise.all(validationPromises); return validationErrors
Joined(launches) ==
    IF Failed(launches) THEN {Rejected(launches)}
    ELSE {Fulfilled(errors, launches) : errors \in Orders(ErrorsOf(launches))}

\* validatorsByColumnId with the automatic validators built from the states of
\* the validated sheet alone.
validatorsByColumnIdOfOwnSheet(sheetDefinition, allData) ==
    LET columns == sheetDefinition.columns
        ids == {columns[i].id : i \in DOMAIN columns}
        lastOf(id) == CHOOSE i \in DOMAIN columns :
                        /\ columns[i].id = id
                        /\ \A j \in DOMAIN columns : columns[j].id = id => j <= i
        explicit(c) == IF "validators" \in DOMAIN c THEN c.validators ELSE <<>>
        own == SelectSeq(allData, LAMBDA sheet : sheet.sheetId = sheetDefinition.id)
    IN  [id \in ids |-> explicit(columns[lastOf(id)])
                          \o automaticFieldValidators(columns[lastOf(id)], own)]

validatorsByColumnId(sheetDefinition, allData) ==
    LET columns == sheetDefinition.columns
        ids == {columns[i].id : i \in DOMAIN columns}
        lastOf(id) == CHOOSE i \in DOMAIN columns :
                        /\ columns[i].id = id
                        /\ \A j \in DOMAIN columns : columns[j].id = id => j <= i
        explicit(c) == IF "validators" \in DOMAIN c THEN c.validators ELSE <<>>
    IN  [id \in ids |-> explicit(columns[lastOf(id)])
                          \o automaticFieldValidators(columns[lastOf(id)], allData)]

\* validateSheetCell with the condition of the required validator checked: a
\* conditionally required column that is missing from the row is skipped.
validateSheetCellConditionChecked(sheetDefinition, columnDefinition, row, rowIndex, validators) ==
    IF ~hasData(row) THEN <<>>
    ELSE IF /\ columnDefinition.id \notin DOMAIN row
            /\ ~fieldIsRequired(columnDefinition, NoOptions)
    THEN <<>>
    ELSE [v \in 1..Len(validators) |->
            [sheetId |-> sheetDefinition.id, columnId |-> columnDefinition.id,
             rowIndex |-> rowIndex,
             result |-> isValid(validators[v], cellValue(row, columnDefinition.id), row)]]

\* The body of the loops of validateSheet for one column and one row.
validateSheetCell(sheetDefinition, columnDefinition, row, rowIndex, validators) ==
    IF ~hasData(row) THEN <<>>
    ELSE IF /\ columnDefinition.id \notin DOMAIN row
            /\ ~fieldIsRequired(columnDefinition, [skipConditionCheck |-> TRUE])
    THEN <<>>
    ELSE [v \in 1..Len(validators) |->
            [sheetId |-> sheetDefinition.id, columnId |-> columnDefinition.id,
             rowIndex |-> rowIndex,
             result |-> isValid(validators[v], cellValue(row, columnDefinition.id), row)]]

validateSheet(sheetDefinition, sheetData, allData) ==
    LET byColumn == validatorsByColumnId(sheetDefinition, allData)
        columns == sheetDefinition.columns
        launches ==
            Flat([c \in 1..Len(columns) |->
                Flat([r \in 1..Len(sheetData.rows) |->
                    validateSheetCell(sheetDefinition, columns[c], sheetData.rows[r],
                                      r - 1, byColumn[columns[c].id])])])
    IN  Joined(UntilThrow(launches))

\* sheetStates.find((state) => state.sheetId === id): its index, 0 when none.
FindSheet(states, id) ==
    LET found == {i \in DOMAIN states : states[i].sheetId = id}
    IN  IF found = {} THEN 0 ELSE CHOOSE i \in found : \A j \in found : i <= j

\* Every way the promises of a sequence of calls can settle together.
RECURSIVE Settlements(_)
Settlements(outcomeSets) ==
    IF Len(outcomeSets) = 0 THEN {<<>>}
    ELSE {<<first>> \o rest : first \in Head(outcomeSets),
                              rest \in Settlements(Tail(outcomeSets))}

\* await Promise.all(promises), then .flat()
JoinedSheets(settled) ==
    LET launched == Flat([i \in 1..Len(settled) |-> settled[i].launched])
    IN  IF \E i \in DOMAIN settled : settled[i].status = "rejected"
        THEN Rejected(launched)
        ELSE Fulfilled(Flat([i \in 1..Len(settled) |-> settled[i].value]), launched)

applyValidations(definitions, states) ==
    LET perSheet(sheetDefinition) ==
            LET found == FindSheet(states, sheetDefinition.id)
            IN  IF found # 0
                THEN validateSheet(sheetDefinition, states[found], states)
                ELSE {Fulfilled(<<>>, <<>>)}
    IN  {JoinedSheets(settled) :
            settled \in Settlements([d \in 1..Len(definitions) |-> perSheet(definitions[d])])}

(***************************************************************************)
(* Incremental validation: the same loops restricted to the dirty rows of  *)
(* each sheet, then the merge with the existing errors.  dirtyRows is a    *)
(* Map from sheet id to a set of row indices: a function on the sheet ids  *)
(* that are keys of the map.                                               *)
(***************************************************************************)
\* validateSpecificRowsCell without the test that the row has data.
validateSpecificRowsCellNoDataCheck(sheetDefinition, columnDefinition, row, rowIndex, validators, rowIndices) ==
    IF rowIndex \notin rowIndices THEN <<>>
    ELSE IF /\ columnDefinition.id \notin DOMAIN row
            /\ ~fieldIsRequired(columnDefinition, [skipConditionCheck |-> TRUE])
    THEN <<>>
    ELSE [v \in 1..Len(validators) |->
            [sheetId |-> sheetDefinition.id, columnId |-> columnDefinition.id,
             rowIndex |-> rowIndex,
             result |-> isValid(validators[v], cellValue(row, columnDefinition.id), row)]]

\* validateSpecificRowsCell without the test that the row index is in rowIndices.
validateSpecificRowsCellEveryRow(sheetDefinition, columnDefinition, row, rowIndex, validators, rowIndices) ==
    IF ~hasData(row) THEN <<>>
    ELSE IF /\ columnDefinition.id \notin DOMAIN row
            /\ ~fieldIsRequired(columnDefinition, [skipConditionCheck |-> TRUE])
    THEN <<>>
    ELSE [v \in 1..Len(validators) |->
            [sheetId |-> sheetDefinition.id, columnId |-> columnDefinition.id,
             rowIndex |-> rowIndex,
             result |-> isValid(validators[v], cellValue(row, columnDefinition.id), row)]]

\* The body of the loops of validateSpecificRows for one column and one row.
validateSpecificRowsCell(sheetDefinition, columnDefinition, row, rowIndex, validators, rowIndices) ==
    IF rowIndex \notin rowIndices THEN <<>>
    ELSE IF ~hasData(row) THEN <<>>
    ELSE IF /\ columnDefinition.id \notin DOMAIN row
            /\ ~fieldIsRequired(columnDefinition, [skipConditionCheck |-> TRUE])
    THEN <<>>
    ELSE [v \in 1..Len(validators) |->
            [sheetId |-> sheetDefinition.id, columnId |-> columnDefinition.id,
             rowIndex |-> rowIndex,
             result |-> isValid(validators[v], cellValue(row, columnDefinition.id), row)]]

validateSpecificRows(sheetDefinition, sheetData, allData, rowIndices) ==
    LET byColumn == validatorsByColumnId(sheetDefinition, allData)
        columns == sheetDefinition.columns
        launches ==
            Flat([c \in 1..Len(columns) |->
                Flat([r \in 1..Len(sheetData.rows) |->
                    validateSpecificRowsCell(sheetDefinition, columns[c], sheetData.rows[r],
                                             r - 1, byColumn[columns[c].id], rowIndices)])])
    IN  Joined(UntilThrow(launches))

\* `${sheetId}-${rowIndex}`.  The sheet ids of the model hold no "-" and the row
\* indices are not negative, so two keys are equal only for the same pair.
rowKey(sheetId, rowIndex) == <<sheetId, "-", rowIndex>>

\* dirtyRowKeys that stops after the first row index of each sheet.
dirtyRowKeysFirstRowOnly(map) ==
    UNION {{rowKey(sheetId, rowIndex) :
                rowIndex \in {i \in map[sheetId] : \A j \in map[sheetId] : i <= j}} :
           sheetId \in DOMAIN map}

dirtyRowKeys(map) ==
    UNION {{rowKey(sheetId, rowIndex) : rowIndex \in map[sheetId]} : sheetId \in DOMAIN map}

\* filteredExistingErrors with the bug of keeping the errors of the dirty rows.
filteredExistingErrorsKeepingAll(existing, map) == existing

filteredExistingErrors(existing, map) ==
    SelectSeq(existing,
              LAMBDA error : rowKey(error.sheetId, error.rowIndex) \notin dirtyRowKeys(map))

\* allErrors with the new errors put first.
allErrorsNewFirst(filtered, newErrors) == newErrors \o filtered

\* const allErrors = [...filteredExistingErrors, ...newErrors.flat()]
allErrors(filtered, newErrors) == filtered \o newErrors

\* The new errors of the dirty rows: the awaited promises of lines 246-269.
incrementalNewErrors(definitions, states, map) ==
    LET perSheet(sheetDefinition) ==
            LET found == FindSheet(states, sheetDefinition.id)
            IN  IF /\ found # 0
                   /\ sheetDefinition.id \in DOMAIN map
                   /\ Cardinality(map[sheetDefinition.id]) > 0
                THEN validateSpecificRows(sheetDefinition, states[found], states,
                                          map[sheetDefinition.id])
                ELSE {Fulfilled(<<>>, <<>>)}
    IN  {JoinedSheets(settled) :
            settled \in Settlements([d \in 1..Len(definitions) |-> perSheet(definitions[d])])}

applyValidationsToSpecificRows(definitions, states, existing, map) ==
    {IF new.status = "rejected"
     THEN [status |-> "rejected", value |-> <<>>, launched |-> new.launched,
           newErrors |-> <<>>]
     ELSE [status |-> "fulfilled",
           value |-> allErrors(filteredExistingErrors(existing, map), new.value),
           launched |-> new.launched, newErrors |-> new.value] :
        new \in incrementalNewErrors(definitions, states, map)}

(***************************************************************************)
(* ImporterState and the reducer.  An optional field is None or Some(v).   *)
(* dirtyRows, when defined, is a function from sheet ids to sets of row    *)
(* indices; validation run ids are the numbers generateValidationRunId     *)
(* hands out.                                                              *)
(***************************************************************************)
None == [defined |-> FALSE]
Some(v) == [defined |-> TRUE, value |-> v]

buildInitialState(definitions) ==
    [currentSheetId |-> definitions[1].id,
     mode |-> "upload",
     validationErrors |-> <<>>,
     validationInProgress |-> FALSE,
     sheetData |-> [i \in 1..Len(definitions) |-> [sheetId |-> definitions[i].id, rows |-> <<>>]],
     importProgress |-> 0,
     parsedFile |-> None,
     columnMappings |-> None,
     validationRunId |-> None,
     dirtyRows |-> None]

EmptyRow == <<>>

\* The rows of a sheet with the row at rowIndex replaced.
SetRow(rows, rowIndex, value) ==
    [r \in 1..Len(rows) |-> IF r = rowIndex + 1 THEN value ELSE rows[r]]

\* The dirty-row map with (sheetId, rowIndex) added.
MarkDirty(dirty, sheetId, rowIndex) ==
    LET map == IF dirty.defined THEN dirty.value ELSE <<>>
        ids == DOMAIN map \cup {sheetId}
    IN  Some([id \in ids |->
                (IF id \in DOMAIN map THEN map[id] ELSE {})
                \cup (IF id = sheetId THEN {rowIndex} ELSE {})])

\* VALIDATION_STARTED: the state is validating, and the batch is the latest one.
validationStarted(s, payload) ==
    [s EXCEPT !.validationInProgress = TRUE, !.validationRunId = Some(payload.runId)]

\* The dirty-row map with no row pending: untracked stays untracked, and a
\* tracked sheet keeps its entry with the empty set.
NothingPending(dirty) ==
    IF dirty.defined THEN Some([id \in DOMAIN dirty.value |-> {}]) ELSE dirty

\* VALIDATION_COMPLETED with the bug of committing the result of any batch.
validationCompletedOfAnyRun(s, payload) ==
    [s EXCEPT !.validationErrors = payload.errors, !.validationInProgress = FALSE,
              !.dirtyRows = NothingPending(@)]

\* VALIDATION_COMPLETED with the bug of leaving the committed rows dirty.
validationCompletedKeepingDirtyRows(s, payload) ==
    IF s.validationRunId = Some(payload.runId)
    THEN [s EXCEPT !.validationErrors = payload.errors, !.validationInProgress = FALSE]
    ELSE s

\* VALIDATION_COMPLETED: the result is committed only if it is the one of the
\* latest batch; then the state is no longer validating and the dirty rows,
\* whose revalidation is committed with it, are cleared.
validationCompleted(s, payload) ==
    IF s.validationRunId = Some(payload.runId)
    THEN [s EXCEPT !.validationErrors = payload.errors, !.validationInProgress = FALSE,
                   !.dirtyRows = NothingPending(@)]
    ELSE s

\* ENTER_DATA_MANUALLY with the bug of staying in the mode the state is in.
enterDataManuallyKeepingMode(s, payload) ==
    [s EXCEPT !.sheetData = [i \in DOMAIN s.sheetData |->
                  [sheetId |-> s.sheetData[i].sheetId,
                   rows |-> [r \in 1..payload.amountOfEmptyRowsToAdd |-> EmptyRow]]]]

\* ENTER_DATA_MANUALLY: every sheet gets the empty rows, and the mode is preview.
enterDataManually(s, payload) ==
    [s EXCEPT !.mode = "preview",
              !.sheetData = [i \in DOMAIN s.sheetData |->
                  [sheetId |-> s.sheetData[i].sheetId,
                   rows |-> [r \in 1..payload.amountOfEmptyRowsToAdd |-> EmptyRow]]]]

reducer(s, action) ==
    CASE action.type = "ENTER_DATA_MANUALLY" -> enterDataManually(s, action.payload)
      [] action.type = "FILE_PARSED" ->
            [s EXCEPT !.parsedFile = Some(action.payload.parsed), !.mode = "mapping"]
      [] action.type = "UPLOAD" -> [s EXCEPT !.mode = "upload"]
      [] action.type = "COLUMN_MAPPING_CHANGED" ->
            [s EXCEPT !.columnMappings = Some(action.payload.mappings)]
      [] action.type = "DATA_MAPPED" ->
            [s EXCEPT !.sheetData = action.payload.mappedData, !.mode = "preview"]
      [] action.type = "CELL_CHANGED" ->
            [s EXCEPT !.sheetData = [i \in DOMAIN s.sheetData |->
                          IF s.sheetData[i].sheetId = action.payload.sheetId
                          THEN [s.sheetData[i] EXCEPT
                                  !.rows = SetRow(@, action.payload.rowIndex, action.payload.value)]
                          ELSE s.sheetData[i]],
                      !.dirtyRows = MarkDirty(@, action.payload.sheetId, action.payload.rowIndex)]
      [] action.type = "REMOVE_ROWS" ->
            [s EXCEPT !.sheetData = [i \in DOMAIN s.sheetData |->
                          IF s.sheetData[i].sheetId = action.payload.sheetId
                          THEN [s.sheetData[i] EXCEPT
                                  !.rows = SelectSeq(@, LAMBDA row :
                                              row \notin Range(action.payload.rows))]
                          ELSE s.sheetData[i]]]
      [] action.type = "ADD_EMPTY_ROW" ->
            [s EXCEPT !.sheetData = [i \in DOMAIN s.sheetData |->
                          IF s.sheetData[i].sheetId = s.currentSheetId
                          THEN [s.sheetData[i] EXCEPT !.rows = Append(@, EmptyRow)]
                          ELSE s.sheetData[i]]]
      [] action.type = "SHEET_CHANGED" -> [s EXCEPT !.currentSheetId = action.payload.sheetId]
      [] action.type = "SUBMIT" -> [s EXCEPT !.mode = "submit"]
      [] action.type = "PROGRESS" -> [s EXCEPT !.importProgress = action.payload.progress]
      [] action.type = "COMPLETED" -> [s EXCEPT !.mode = "completed"]
      [] action.type = "FAILED" -> [s EXCEPT !.mode = "failed"]
      [] action.type = "PREVIEW" -> [s EXCEPT !.mode = "preview"]
      [] action.type = "MAPPING" -> [s EXCEPT !.mode = "mapping"]
      [] action.type = "RESET" ->
            buildInitialState([i \in DOMAIN s.sheetData |-> [id |-> s.sheetData[i].sheetId]])
      [] action.type = "SET_STATE" -> action.payload.state
      [] action.type = "VALIDATION_STARTED" -> validationStarted(s, action.payload)
      [] action.type = "VALIDATION_COMPLETED" -> validationCompleted(s, action.payload)
      [] OTHER -> s

(***************************************************************************)
(* StateBuilder.getState: fold the pending actions from the initial state, *)
(* validate the dirty rows when there are some and all rows otherwise, and *)
(* keep the errors of the folded state when the validation fails.          *)
(***************************************************************************)
RECURSIVE foldSteps(_, _)
foldSteps(s, steps) ==
    IF Len(steps) = 0 THEN s ELSE foldSteps(reducer(s, Head(steps)), Tail(steps))

\* hasDirtyRows with the bug of asking only whether dirty rows are tracked.
hasDirtyRowsWhenTracked(s) == s.dirtyRows.defined

hasDirtyRows(s) ==
    /\ s.dirtyRows.defined
    /\ \E id \in DOMAIN s.dirtyRows.value : Cardinality(s.dirtyRows.value[id]) > 0

\* The catch handler with the bug of returning what the failed run left behind.
caughtWithoutFallback(promise, fallback) == promise.value

\* .catch(() => state.validationErrors)
caught(promise, fallback) ==
    IF promise.status = "rejected" THEN fallback ELSE promise.value

\* getState without the catch handlers: the promise it returns rejects when the
\* validation does.
getStateWithoutCatch(definitions, initial, steps) ==
    LET folded == foldSteps(initial, steps)
        promises ==
            IF hasDirtyRows(folded)
            THEN applyValidationsToSpecificRows(definitions, folded.sheetData,
                                                folded.validationErrors, folded.dirtyRows.value)
            ELSE applyValidations(definitions, folded.sheetData)
    IN  {[status |-> promise.status,
          value |-> [folded EXCEPT !.validationErrors = promise.value],
          incremental |-> hasDirtyRows(folded),
          validation |-> promise.status,
          launched |-> promise.launched] : promise \in promises}

getState(definitions, initial, steps) ==
    LET folded == foldSteps(initial, steps)
        promises ==
            IF hasDirtyRows(folded)
            THEN applyValidationsToSpecificRows(definitions, folded.sheetData,
                                                folded.validationErrors, folded.dirtyRows.value)
            ELSE applyValidations(definitions, folded.sheetData)
    IN  {[status |-> "fulfilled",
          value |-> [folded EXCEPT !.validationErrors = caught(promise, folded.validationErrors)],
          incremental |-> hasDirtyRows(folded),
          validation |-> promise.status,
          launched |-> promise.launched] : promise \in promises}

\* getState was not called.
NotBuilt == [status |-> "pending"]

\* A getState call awaits its validators: it has folded the first steps of the
\* queue.
Awaiting(promise) == promise.status = "pending" /\ promise # NotBuilt

\* The promise of a getState call has settled.
Returned(promise) == promise.status # "pending"

\* No confirmMappings call awaits.
NotConfirming == [awaits |-> "nothing"]

\* The importer has no onDataColumnsMapped callback and mappings are not being
\* confirmed.
NoConfirmation ==
    /\ onDataColumnsMapped = None
    /\ confirming = NotConfirming

(***************************************************************************)
(* The sheets of the model.  Sheet s1 has the columns a and b, sheet s2    *)
(* the column r.  Column a takes its type and its validators from a        *)
(* catalog; b is a text column without validators; r is a required text    *)
(* column.                                                                 *)
(***************************************************************************)
EnumValues == <<[label |-> "X", value |-> "x"], [label |-> "Y", value |-> "y"]>>

TextColumn(id) == [id |-> id, type |-> "text"]
EnumColumn(id) == [id |-> id, type |-> "enum", typeArguments |-> [values |-> EnumValues]]
WithValidators(column, validators) == column @@ [validators |-> validators]

Sheets(columnA) ==
    <<[id |-> "s1", columns |-> <<columnA, TextColumn("b")>>],
      [id |-> "s2", columns |-> <<WithValidators(TextColumn("r"), <<Required>>)>>]>>

\* Column a with every list of at most MaxValidators explicit validators.
AnyColumnA ==
    LET bare == {TextColumn("a"), EnumColumn("a")}
    IN  bare \cup {WithValidators(c, vs) :
                      c \in bare, vs \in SeqsUpTo(ValidatorCatalog, MaxValidators)}

\* The columns of the validation runs: at most one message per cell.
ValidatedColumnA ==
    {TextColumn("a"), EnumColumn("a"),
     WithValidators(TextColumn("a"), <<Required>>),
     WithValidators(TextColumn("a"), <<RequiredWhen>>),
     WithValidators(TextColumn("a"), <<Custom>>),
     WithValidators(TextColumn("a"), <<Custom, Required>>)}

\* Rows of sheet s1: without data; a missing and the condition of RequiredWhen
\* true, false; a present and empty; a valid; a rejected by the custom validator;
\* a on which it throws; a on which its promise rejects.
S1Rows ==
    {[a |-> ""], [b |-> "x"], [b |-> "y"], [a |-> "", b |-> "x"],
     [a |-> "x"], [a |-> "y"], [a |-> "z"], [a |-> "w"]}

\* Sheet s2: no state at all, no rows, one row with data that misses r.
S2States == {<<>>, <<[sheetId |-> "s2", rows |-> <<>>]>>,
             <<[sheetId |-> "s2", rows |-> <<[q |-> "x"]>>]>>}

SheetStates(rowsOfS1, s2) == <<[sheetId |-> "s1", rows |-> rowsOfS1]>> \o s2

\* Every row of every sheet state marked dirty.
AllDirty(states) ==
    [id \in {states[i].sheetId : i \in DOMAIN states} |->
        0..(Len(states[FindSheet(states, id)].rows) - 1)]

OldError(sheetId, rowIndex) ==
    [sheetId |-> sheetId, columnId |-> "a", rowIndex |-> rowIndex, message |-> "old"]

NoCall == [called |-> FALSE]

(***************************************************************************)
(* Calls of the exported functions.                                        *)
(***************************************************************************)
CallFieldIsRequired ==
    /\ ~requiredCall.called
    /\ \E options \in {NoOptions, [skipConditionCheck |-> TRUE],
                       [skipConditionCheck |-> FALSE]} :
          requiredCall' = [called |-> TRUE, options |-> options,
                           result |-> fieldIsRequired(sheetDefinitions[1].columns[1], options)]
    /\ UNCHANGED <<sheetDefinitions, sheetStates, existingErrors, dirtyRows,
                   fullResult, incResult, calls, builderVars, orchVars, standaloneVars>>

CallApplyValidations ==
    /\ fullResult.status = "pending"
    /\ incResult.status = "pending"
    /\ fullResult' \in applyValidations(sheetDefinitions, sheetStates)
    /\ UNCHANGED <<sheetDefinitions, sheetStates, existingErrors, dirtyRows,
                   requiredCall, incResult, calls, builderVars, orchVars, standaloneVars>>

CallApplyValidationsToSpecificRows ==
    /\ incResult.status = "pending"
    /\ incResult' \in applyValidationsToSpecificRows(sheetDefinitions, sheetStates,
                                                     existingErrors, dirtyRows)
    /\ UNCHANGED <<sheetDefinitions, sheetStates, existingErrors, dirtyRows,
                   requiredCall, fullResult, calls, builderVars, orchVars, standaloneVars>>

NoResults ==
    /\ requiredCall = NoCall
    /\ fullResult = Pending
    /\ incResult = Pending @@ [newErrors |-> <<>>]
    /\ calls = <<>>

\* No pipeline is in use.
NoPipeline ==
    /\ pipeline = [steps |-> <<>>]
    /\ transformed = [called |-> FALSE]
    /\ transformations = [batch |-> None, single |-> <<>>, next |-> <<>>]

\* buildState and the pipelines are not in use.
NoStandalone ==
    /\ persistence = <<>>
    /\ loadedState = [status |-> "pending"]
    /\ NoPipeline

\* The interactive builder has dispatched nothing.
NoOrchestration ==
    /\ validationTimeoutId = None
    /\ timers = {}
    /\ runs = {}
    /\ runIdCounter = 0
    /\ mandated = <<>>
    /\ started = <<>>
    /\ completions = <<>>
    /\ dispatchLog = <<>>

\* No state builder is in use.
NoBuilder ==
    /\ initialState = buildInitialState(sheetDefinitions)
    /\ buildSteps = <<>>
    /\ builtState = NotBuilt
    /\ NoConfirmation
    /\ state = initialState
    /\ NoOrchestration
    /\ NoStandalone

(***************************************************************************)
(* fieldIsRequired on every column of the catalog.                         *)
(***************************************************************************)
InitRequired ==
    /\ sheetDefinitions \in {Sheets(columnA) : columnA \in AnyColumnA}
    /\ sheetStates = SheetStates(<<>>, <<>>)
    /\ existingErrors = <<>>
    /\ dirtyRows = <<>>
    /\ NoResults
    /\ NoBuilder

SpecRequired == InitRequired /\ [][CallFieldIsRequired]_vars

(***************************************************************************)
(* Full validation, and incremental validation with every row dirty.       *)
(***************************************************************************)
InitValidate ==
    /\ sheetDefinitions \in {Sheets(columnA) : columnA \in ValidatedColumnA}
    /\ sheetStates \in {SheetStates(rows, s2) :
                          rows \in SeqsUpTo(S1Rows, MaxRows), s2 \in S2States}
    /\ existingErrors \in {<<>>, <<OldError("s1", 0)>>}
    /\ dirtyRows = AllDirty(sheetStates)
    /\ NoResults
    /\ NoBuilder

NextValidate == CallApplyValidations \/ CallApplyValidationsToSpecificRows

SpecValidate == InitValidate /\ [][NextValidate]_vars

(***************************************************************************)
(* Properties of fieldIsRequired and of full validation.                   *)
(***************************************************************************)
ExplicitValidators(column) ==
    IF "validators" \in DOMAIN column THEN column.validators ELSE <<>>

RequiredIndices(column) ==
    {i \in DOMAIN ExplicitValidators(column) :
        ExplicitValidators(column)[i].validate = "required"}

\* The required validator the column is judged by is the first of its list.
FirstRequiredHasNoWhen(column) ==
    \E i \in RequiredIndices(column) :
        /\ \A j \in RequiredIndices(column) : i <= j
        /\ "when" \notin DOMAIN ExplicitValidators(column)[i]

CalledColumn == sheetDefinitions[1].columns[1]

SkipsCondition ==
    /\ "skipConditionCheck" \in DOMAIN requiredCall.options
    /\ requiredCall.options.skipConditionCheck

\* C9: fieldIsRequired(column, {skipConditionCheck: true}) is true iff the column
\* has a validator definition of kind required, whatever its when predicate; with
\* skipConditionCheck false or left out it is true iff such a validator exists and
\* the one the column is judged by (the first of kind required) has no when
\* predicate; a column with no validators yields false.
C9_FieldIsRequired ==
    requiredCall.called =>
        /\ SkipsCondition => (requiredCall.result <=> RequiredIndices(CalledColumn) # {})
        /\ ~SkipsCondition =>
              (requiredCall.result <=> FirstRequiredHasNoWhen(CalledColumn))
        /\ Len(ExplicitValidators(CalledColumn)) = 0 => ~requiredCall.result

\* A conditional required validator makes the column required only when the
\* condition check is skipped.
C9_Witness ==
    /\ requiredCall.called
    /\ SkipsCondition
    /\ requiredCall.result
    /\ ExplicitValidators(CalledColumn) = <<RequiredWhen>>

\* The state of the sheet definition, or no rows when it has none.
RowsOf(sheetId) ==
    IF FindSheet(sheetStates, sheetId) = 0 THEN <<>>
    ELSE sheetStates[FindSheet(sheetStates, sheetId)].rows

Cells ==
    {<<d, c, r>> : d \in DOMAIN sheetDefinitions, c \in 1..2, r \in 1..(MaxRows + 1)}

IsCell(cell) ==
    /\ cell[2] \in DOMAIN sheetDefinitions[cell[1]].columns
    /\ cell[3] \in DOMAIN RowsOf(sheetDefinitions[cell[1]].id)

CellColumn(cell) == sheetDefinitions[cell[1]].columns[cell[2]]
CellRow(cell) == RowsOf(sheetDefinitions[cell[1]].id)[cell[3]]

OfCell(record, cell) ==
    /\ record.sheetId = sheetDefinitions[cell[1]].id
    /\ record.columnId = CellColumn(cell).id
    /\ record.rowIndex = cell[3] - 1

LaunchedOn(result, cell) ==
    Cardinality({i \in DOMAIN result.launched : OfCell(result.launched[i], cell)})

ErrorsOn(errors, cell, message) ==
    Cardinality({i \in DOMAIN errors : OfCell(errors[i], cell) /\ errors[i].message = message})

NothingThrew(result) ==
    \A i \in DOMAIN result.launched : result.launched[i].result.kind # "throw"

\* The required validator of the column applies to the row: it has one, and that
\* one is unconditional or its condition holds of the row.
RequiredApplies(column, row) ==
    /\ Cardinality(RequiredIndices(column)) = 1
    /\ \A i \in RequiredIndices(column) :
          "when" \in DOMAIN column.validators[i] => whenHolds(column.validators[i].when, row)

\* C8: in full validation the validators of a column are evaluated on a row iff
\* the row has data and the column id is a key of the row or the column has a
\* required validator, conditional or not; a column whose required validator
\* applies and that is missing from a row with data gets exactly one required
\* error for that cell (none when the condition of the validator fails), and a row
\* without data gets no error at all.
C8_FullValidationEligibility ==
    \A cell \in Cells : IsCell(cell) =>
        LET column == CellColumn(cell)
            row == CellRow(cell)
            eligible == /\ hasData(row)
                        /\ \/ column.id \in DOMAIN row
                           \/ RequiredIndices(column) # {}
            count == Len(ExplicitValidators(column))
                       + (IF column.type \in {"enum", "reference"} THEN 1 ELSE 0)
        IN  /\ (fullResult.status # "pending" /\ NothingThrew(fullResult)) =>
                  LaunchedOn(fullResult, cell) = (IF eligible THEN count ELSE 0)
            /\ fullResult.status = "fulfilled" =>
                  /\ (hasData(row) /\ column.id \notin DOMAIN row
                        /\ RequiredIndices(column) # {}) =>
                        ErrorsOn(fullResult.value, cell, "required")
                            = (IF RequiredApplies(column, row) THEN 1 ELSE 0)
                  /\ ~hasData(row) =>
                        \A i \in DOMAIN fullResult.value : ~OfCell(fullResult.value[i], cell)

\* A row with data misses the required column a and gets its one required error,
\* next to a row without data.
C8_Witness ==
    /\ fullResult.status = "fulfilled"
    /\ ExplicitValidators(sheetDefinitions[1].columns[1]) = <<Required>>
    /\ Len(RowsOf("s1")) = 2
    /\ RowsOf("s1")[1] = [a |-> ""]
    /\ RowsOf("s1")[2] = [b |-> "y"]
    /\ ErrorsOn(fullResult.value, <<1, 1, 2>>, "required") = 1

DeclaredValues(column) ==
    {column.typeArguments.values[i].value : i \in DOMAIN column.typeArguments.values}

\* C10: on a column of type enum a cell value outside the declared enumeration
\* values gets exactly one includes error for that cell, and every declared value
\* gets none.
C10_EnumIncludes ==
    fullResult.status = "fulfilled" =>
        \A cell \in Cells :
            (IsCell(cell) /\ CellColumn(cell).type = "enum"
                /\ ~isEmptyCell(cellValue(CellRow(cell), CellColumn(cell).id))) =>
                ErrorsOn(fullResult.value, cell, "includes")
                    = (IF cellValue(CellRow(cell), CellColumn(cell).id)
                            \in DeclaredValues(CellColumn(cell))
                       THEN 0 ELSE 1)

\* One row holds a declared value and passes, the next holds another value and
\* gets the includes error.
C10_Witness ==
    /\ fullResult.status = "fulfilled"
    /\ sheetDefinitions[1].columns[1].type = "enum"
    /\ Len(RowsOf("s1")) = 2
    /\ RowsOf("s1")[1] = [a |-> "y"]
    /\ RowsOf("s1")[2] = [a |-> "z"]
    /\ ErrorsOn(fullResult.value, <<1, 1, 1>>, "includes") = 0
    /\ ErrorsOn(fullResult.value, <<1, 1, 2>>, "includes") = 1

ExistingConfinedToDirtyRows ==
    \A i \in DOMAIN existingErrors :
        rowKey(existingErrors[i].sheetId, existingErrors[i].rowIndex)
            \in dirtyRowKeys(dirtyRows)

\* C6: full validation and incremental validation with every row of every sheet
\* marked dirty settle alike and produce the same set of (sheetId, columnId,
\* rowIndex, message) tuples, in whatever order the evaluations resolve: the new
\* errors of the incremental call are that set, and so is its merged result when
\* the existing errors all belong to rows that are marked dirty.
C6_FullEqualsAllDirty ==
    (fullResult.status # "pending" /\ incResult.status # "pending"
        /\ dirtyRows = AllDirty(sheetStates)) =>
        /\ fullResult.status = incResult.status
        /\ Range(incResult.newErrors) = Range(fullResult.value)
        /\ (incResult.status = "fulfilled" /\ ExistingConfinedToDirtyRows) =>
              Range(incResult.value) = Range(fullResult.value)

\* Both calls found two errors and returned them in different orders, the
\* incremental one after dropping the existing error of a dirty row.
C6_Witness ==
    /\ fullResult.status = "fulfilled"
    /\ incResult.status = "fulfilled"
    /\ dirtyRows = AllDirty(sheetStates)
    /\ existingErrors # <<>>
    /\ ExistingConfinedToDirtyRows
    /\ Len(fullResult.value) = 2
    /\ Range(fullResult.value) = Range(incResult.value)
    /\ fullResult.value # incResult.value

(***************************************************************************)
(* The incremental merge on every existing error list and dirty-row map.   *)
(***************************************************************************)
\* A valid row, and a row with data that misses the required column a.
MergeRows == {[a |-> "x"], [b |-> "x"]}

\* Existing errors: of every row index of s1 and of one index past its rows, one
\* equal to the error a new validation of row 0 produces, and one of s2.
ExistingCatalog ==
    {OldError("s1", i) : i \in 0..MaxRows}
    \cup {[sheetId |-> "s1", columnId |-> "a", rowIndex |-> 0, message |-> "required"],
          OldError("s2", 0)}

DirtyMaps ==
    UNION {[ids -> SUBSET (0..(MaxRows - 1))] : ids \in SUBSET {"s1", "s2"}}

InitMerge ==
    /\ sheetDefinitions = Sheets(WithValidators(TextColumn("a"), <<Required>>))
    /\ sheetStates \in {SheetStates(rows, <<[sheetId |-> "s2", rows |-> <<[q |-> "x"]>>]>>) :
                          rows \in SeqsUpTo(MergeRows, MaxRows)}
    /\ existingErrors \in SeqsUpTo(ExistingCatalog, MaxExisting)
    /\ dirtyRows \in {map \in DirtyMaps : "s2" \in DOMAIN map => map["s2"] \subseteq {0}}
    /\ NoResults
    /\ NoBuilder

SpecMerge == InitMerge /\ [][CallApplyValidationsToSpecificRows]_vars

IsDirty(error) ==
    /\ error.sheetId \in DOMAIN dirtyRows
    /\ error.rowIndex \in dirtyRows[error.sheetId]

KeptExisting == SelectSeq(existingErrors, LAMBDA error : ~IsDirty(error))

\* C4: the incremental merge keeps every existing error whose (sheetId, rowIndex)
\* is not in the dirty-row map, unchanged and in its original relative order, and
\* places all the newly computed errors after them.
C4_MergeKeepsUntouched ==
    incResult.status = "fulfilled" =>
        /\ SubSeq(incResult.value, 1, Len(KeptExisting)) = KeptExisting
        /\ SubSeq(incResult.value, Len(KeptExisting) + 1, Len(incResult.value))
              = incResult.newErrors
        /\ SelectSeq(incResult.value, LAMBDA error : ~IsDirty(error)) = KeptExisting

\* Two existing errors of rows that are not dirty are kept in their order, before
\* the new error of the dirty row.
C4_Witness ==
    /\ incResult.status = "fulfilled"
    /\ existingErrors = <<OldError("s1", 1), OldError("s2", 0)>>
    /\ dirtyRows = [s1 |-> {0}]
    /\ Len(incResult.newErrors) = 1
    /\ incResult.value = existingErrors \o incResult.newErrors

\* C5: after the incremental merge no existing error of a dirty row survives:
\* every error of a dirty row in the result comes from the new batch and appears
\* exactly as many times as the batch produced it.
C5_MergeReplacesDirty ==
    incResult.status = "fulfilled" =>
        /\ \A error \in Range(incResult.value) \cup Range(existingErrors) :
              IsDirty(error) =>
                  Count(incResult.value, error) = Count(incResult.newErrors, error)
        /\ SelectSeq(incResult.value, IsDirty) = incResult.newErrors

\* The existing list holds a stale error of the dirty row 0 and an error equal to
\* the one the new validation of row 0 produces: the result holds that one once.
C5_Witness ==
    /\ incResult.status = "fulfilled"
    /\ existingErrors = <<OldError("s1", 0),
                          [sheetId |-> "s1", columnId |-> "a", rowIndex |-> 0,
                           message |-> "required"]>>
    /\ dirtyRows = [s1 |-> {0, 1}]
    /\ incResult.value = <<[sheetId |-> "s1", columnId |-> "a", rowIndex |-> 0,
                            message |-> "required"]>>

(***************************************************************************)
(* The state builder: the methods that queue actions, and getState.        *)
(***************************************************************************)
NoEngine ==
    /\ sheetStates = <<>>
    /\ existingErrors = <<>>
    /\ dirtyRows = <<>>
    /\ NoResults

Queue(steps) ==
    /\ Len(buildSteps) + Len(steps) <= MaxSteps
    /\ buildSteps' = buildSteps \o steps

\* The cell edits of the model: a row on which the custom validator throws, and
\* a row with data that misses the required column a.
CellChanges ==
    {[sheetId |-> "s1", rowIndex |-> 0, value |-> [a |-> "z"]],
     [sheetId |-> "s1", rowIndex |-> 0, value |-> [b |-> "x"]]}

changeCell ==
    /\ \E payload \in CellChanges : Queue(<<[type |-> "CELL_CHANGED", payload |-> payload]>>)
    /\ UNCHANGED <<sheetDefinitions, engineVars, initialState, builtState, onDataColumnsMapped,
                   confirming, orchVars, standaloneVars>>

removeRows ==
    /\ Queue(<<[type |-> "REMOVE_ROWS",
                payload |-> [sheetId |-> "s1", rows |-> <<[a |-> "y"]>>]]>>)
    /\ UNCHANGED <<sheetDefinitions, engineVars, initialState, builtState, onDataColumnsMapped,
                   confirming, orchVars, standaloneVars>>

setMappings ==
    /\ Queue(<<[type |-> "COLUMN_MAPPING_CHANGED", payload |-> [mappings |-> "chosen"]]>>)
    /\ UNCHANGED <<sheetDefinitions, engineVars, initialState, builtState, onDataColumnsMapped,
                   confirming, orchVars, standaloneVars>>

setEnterDataManually ==
    /\ Queue(<<[type |-> "ENTER_DATA_MANUALLY", payload |-> [amountOfEmptyRowsToAdd |-> 1]]>>)
    /\ UNCHANGED <<sheetDefinitions, engineVars, initialState, builtState, onDataColumnsMapped,
                   confirming, orchVars, standaloneVars>>

\* The file is parsed and the suggested mappings are built; both actions are
\* queued together.  A parse that fails queues nothing.
uploadFile ==
    /\ Queue(<<[type |-> "FILE_PARSED", payload |-> [parsed |-> "csv"]],
               [type |-> "COLUMN_MAPPING_CHANGED", payload |-> [mappings |-> "suggested"]]>>)
    /\ UNCHANGED <<sheetDefinitions, engineVars, initialState, builtState, onDataColumnsMapped,
                   confirming, orchVars, standaloneVars>>

\* The data getMappedData builds from the parsed file under the suggested
\* mappings: column a of sheet s1 is mapped.
MappedData == <<[sheetId |-> "s1", rows |-> <<[a |-> "x"]>>], [sheetId |-> "s2", rows |-> <<>>]>>

\* The data getMappedData builds under the mappings the user chose: column b
\* of sheet s1 is mapped.
MappedDataChosen == <<[sheetId |-> "s1", rows |-> <<[b |-> "x"]>>], [sheetId |-> "s2", rows |-> <<>>]>>

\* The empty list of mappings.
NoMappings == "no mappings"

\* The data getMappedData builds when no column is mapped.
MappedDataEmpty == <<[sheetId |-> "s1", rows |-> <<>>], [sheetId |-> "s2", rows |-> <<>>]>>

getMappedData(definitions, columnMappings, parsedFile) ==
    CASE columnMappings = NoMappings -> MappedDataEmpty
      [] columnMappings = "chosen" -> MappedDataChosen
      [] OTHER -> MappedData

\* The onDataColumnsMapped callback of the model: asynchronous, it replaces the
\* rows of sheet s1.
ChangedByCallback == <<[sheetId |-> "s1", rows |-> <<[a |-> "y"]>>], [sheetId |-> "s2", rows |-> <<>>]>>

\* confirmMappings up to its first await: getState folds the steps queued so
\* far and launches the validators; the call awaits the state.  The caller
\* confirms the mappings once at a time.
confirmMappings ==
    /\ confirming = NotConfirming
    /\ Len(buildSteps) < MaxSteps
    /\ foldSteps(initialState, buildSteps).parsedFile.defined
    /\ \E promise \in getState(sheetDefinitions, initialState, buildSteps) :
          confirming' =
              IF promise.status = "fulfilled"
              THEN [awaits |-> "getState",
                    stateSoFar |-> [columnMappings |-> promise.value.columnMappings,
                                    parsedFile |-> promise.value.parsedFile]]
              ELSE NotConfirming
    /\ UNCHANGED <<sheetDefinitions, engineVars, initialState, buildSteps, builtState,
                   onDataColumnsMapped, orchVars, standaloneVars>>

\* columnMappings ?? []
mappingsOrNone(stateSoFar) ==
    IF stateSoFar.columnMappings.defined THEN stateSoFar.columnMappings.value ELSE NoMappings

\* confirmMappings after getState settled: the data is mapped from the state
\* the call awaited, whatever was queued since.  Without a callback DATA_MAPPED
\* is queued at once; with one the call awaits the callback.
confirmMappingsAfterGetState ==
    /\ confirming # NotConfirming
    /\ confirming.awaits = "getState"
    /\ LET stateSoFar == confirming.stateSoFar
           mappedData == getMappedData(sheetDefinitions, mappingsOrNone(stateSoFar),
                                       stateSoFar.parsedFile.value)
       IN  IF onDataColumnsMapped # None
           THEN /\ confirming' = [awaits |-> "onDataColumnsMapped", mappedData |-> mappedData]
                /\ UNCHANGED buildSteps
           ELSE /\ Queue(<<[type |-> "DATA_MAPPED", payload |-> [mappedData |-> mappedData]]>>)
                /\ confirming' = NotConfirming
    /\ UNCHANGED <<sheetDefinitions, engineVars, initialState, builtState, onDataColumnsMapped,
                   orchVars, standaloneVars>>

\* confirmMappings after the callback settled: what the callback returned is
\* queued; a callback that rejects rejects the call and nothing is queued.
confirmMappingsAfterCallback ==
    /\ confirming # NotConfirming
    /\ confirming.awaits = "onDataColumnsMapped"
    /\ \/ /\ Queue(<<[type |-> "DATA_MAPPED",
                       payload |-> [mappedData |-> onDataColumnsMapped.value]]>>)
          /\ confirming' = NotConfirming
       \/ /\ confirming' = NotConfirming
          /\ UNCHANGED buildSteps
    /\ UNCHANGED <<sheetDefinitions, engineVars, initialState, builtState, onDataColumnsMapped,
                   orchVars, standaloneVars>>

\* getState up to its await: the steps queued so far are folded and the
\* validators are launched on the folded state.  getState is called again only
\* when the promise of the call before has settled.
CallGetState ==
    /\ ~Awaiting(builtState)
    /\ builtState' = [status |-> "pending", steps |-> Len(buildSteps)]
    /\ UNCHANGED <<sheetDefinitions, engineVars, initialState, buildSteps, onDataColumnsMapped,
                   confirming, orchVars, standaloneVars>>

\* The validators of the getState call have settled: the promise is fulfilled
\* with the state folded at the call, whatever was queued since.
getStateSettles ==
    /\ Awaiting(builtState)
    /\ \E promise \in getState(sheetDefinitions, initialState,
                                SubSeq(buildSteps, 1, builtState.steps)) :
          builtState' = [steps |-> builtState.steps] @@ promise
    /\ UNCHANGED <<sheetDefinitions, engineVars, initialState, buildSteps, onDataColumnsMapped,
                   confirming, orchVars, standaloneVars>>

\* A state in preview after a file was mapped: rows of s1 that the custom
\* validator rejects or on which its promise rejects, with or without an error
\* kept from an earlier validation, and with dirty rows untracked, tracked and
\* none, or row 0 dirty.
BuilderStates ==
    {[buildInitialState(Sheets(TextColumn("a"))) EXCEPT
         !.mode = "preview",
         !.parsedFile = Some("csv"),
         !.columnMappings = Some("suggested"),
         !.sheetData = SheetStates(rows, <<[sheetId |-> "s2", rows |-> <<>>]>>),
         !.validationErrors = errors,
         !.dirtyRows = dirty] :
       rows \in SeqsUpTo({[a |-> "y"], [a |-> "w"]}, MaxRows),
       errors \in {<<>>, <<[sheetId |-> "s1", columnId |-> "a", rowIndex |-> 0,
                           message |-> "custom"]>>},
       dirty \in {None, Some([s1 |-> {}]), Some([s1 |-> {0}])}}

InitBuilder ==
    /\ sheetDefinitions = Sheets(WithValidators(TextColumn("a"), <<Custom, Required>>))
    /\ NoEngine
    /\ initialState \in BuilderStates
    /\ buildSteps = <<>>
    /\ builtState = NotBuilt
    /\ onDataColumnsMapped \in {None, Some(ChangedByCallback)}
    /\ confirming = NotConfirming
    /\ state = initialState
    /\ NoOrchestration
    /\ NoStandalone

NextBuilder ==
    \/ changeCell
    \/ removeRows
    \/ setMappings
    \/ setEnterDataManually
    \/ uploadFile
    \/ confirmMappings
    \/ confirmMappingsAfterGetState
    \/ confirmMappingsAfterCallback
    \/ CallGetState
    \/ getStateSettles

SpecBuilder == InitBuilder /\ [][NextBuilder]_vars

\* C7: if a validator evaluation of the validation run fails, getState still
\* returns the state folded from the steps that were queued when it was called,
\* with validationErrors equal to the error list of the folded state; this holds
\* on the full and on the incremental path.
C7_FailedRunKeepsErrors ==
    Returned(builtState) =>
        /\ builtState.status = "fulfilled"
        /\ builtState.validation = "rejected" =>
              builtState.value
                 = foldSteps(initialState, SubSeq(buildSteps, 1, builtState.steps))

\* A cell edit made the custom validator throw during an incremental run, and the
\* error kept from before is returned.
C7_Witness ==
    /\ Returned(builtState)
    /\ builtState.validation = "rejected"
    /\ builtState.incremental
    /\ builtState.steps > 0
    /\ Len(builtState.value.validationErrors) = 1

(***************************************************************************)
(* InnerStateBuilder: dispatchChange feeds the pending actions to the      *)
(* store and debounces the validation; the timer starts runValidation,     *)
(* which awaits getState and dispatches VALIDATION_COMPLETED.              *)
(***************************************************************************)
MaxRuns == 2          \* dispatchChange calls on the one orchestrator

\* The set with the bug of leaving out the removal of rows.
actionTypesWithoutRemoveRows == {"DATA_MAPPED", "CELL_CHANGED"}

actionTypesThatRequireValidation == {"DATA_MAPPED", "CELL_CHANGED", "REMOVE_ROWS"}

shouldValidate(steps) ==
    \E i \in DOMAIN steps : steps[i].type \in actionTypesThatRequireValidation

\* Run ids are fresh: the n-th call returns n.
generateValidationRunId(counter) == counter + 1

\* dispatch(action): the store moves to reducer(state, action).
dispatch(s, action) == reducer(s, action)

\* The dispatches with the bug of announcing the run after the pending actions.
dispatchesAnnouncingLast(steps, runId) ==
    steps \o (IF shouldValidate(steps)
              THEN <<[type |-> "VALIDATION_STARTED", payload |-> [runId |-> runId]]>>
              ELSE <<>>)

\* The actions one dispatchChange call passes to dispatch, in order.
dispatches(steps, runId) ==
    (IF shouldValidate(steps)
     THEN <<[type |-> "VALIDATION_STARTED", payload |-> [runId |-> runId]]>>
     ELSE <<>>) \o steps

\* The dispatches with the bug of never announcing the run.
dispatchedWithoutValidationStarted(s, steps, runId) == foldSteps(s, steps)

\* The store after the dispatches of one dispatchChange call.
dispatched(s, steps, runId) == foldSteps(s, dispatches(steps, runId))

\* The bug of leaving the timer held scheduled.
clearTimeoutSkipped(scheduled, timeoutId) == scheduled

\* clearTimeout of the timer held, when one is held.
clearTimeout(scheduled, timeoutId) ==
    IF timeoutId.defined THEN {t \in scheduled : t.id # timeoutId.value} ELSE scheduled

\* The action of runValidation with the bug of leaving out the run id.
completedActionWithoutRunId(finalState, runId) ==
    [type |-> "VALIDATION_COMPLETED",
     payload |-> [errors |-> finalState.validationErrors, runId |-> 0]]

\* The action runValidation dispatches for the state getState returned.
completedAction(finalState, runId) ==
    [type |-> "VALIDATION_COMPLETED",
     payload |-> [errors |-> finalState.validationErrors, runId |-> runId]]

dispatchChange ==
    /\ runIdCounter < MaxRuns
    /\ LET runId == generateValidationRunId(runIdCounter)
       IN  /\ runIdCounter' = runId
           /\ state' = dispatched(state, buildSteps, runId)
           /\ IF shouldValidate(buildSteps)
              THEN /\ timers' = clearTimeout(timers, validationTimeoutId)
                                   \cup {[id |-> runId, runId |-> runId]}
                   /\ validationTimeoutId' = Some(runId)
                   /\ mandated' = Append(mandated, [runId |-> runId,
                                                    runsStarted |-> Len(started),
                                                    pending |-> buildSteps])
              ELSE UNCHANGED <<timers, validationTimeoutId, mandated>>
           /\ dispatchLog' = dispatchLog \o
                 [i \in 1..Len(dispatches(buildSteps, runId)) |->
                     [by |-> "dispatchChange", call |-> runId,
                      action |-> dispatches(buildSteps, runId)[i]]]
    /\ UNCHANGED <<sheetDefinitions, engineVars, builderVars, runs, started, completions,
                   standaloneVars>>

\* The debounce timer fires: runValidation runs up to its await, where getState
\* has folded the pending actions of this moment, and the handle is dropped.
timeoutFires ==
    /\ \E t \in timers :
          /\ timers' = timers \ {t}
          /\ runs' = runs \cup {[runId |-> t.runId, steps |-> Len(buildSteps)]}
          /\ started' = Append(started, t.runId)
    /\ validationTimeoutId' = None
    /\ UNCHANGED <<sheetDefinitions, engineVars, builderVars, state, runIdCounter,
                   mandated, completions, dispatchLog, standaloneVars>>

\* The validators of one run have settled: runValidation resumes after its await
\* and dispatches; were the awaited promise rejected, it would end there.
runValidation ==
    /\ \E run \in runs :
         \E promise \in getState(sheetDefinitions, initialState,
                                 SubSeq(buildSteps, 1, run.steps)) :
            LET action == completedAction(promise.value, run.runId)
            IN  /\ runs' = runs \ {run}
                /\ IF promise.status = "fulfilled"
                   THEN /\ state' = dispatch(state, action)
                        /\ completions' = Append(completions,
                               [runId |-> run.runId,
                                errors |-> promise.value.validationErrors,
                                incremental |-> promise.incremental,
                                validation |-> promise.validation,
                                sheetData |-> promise.value.sheetData,
                                dirtyRows |-> promise.value.dirtyRows,
                                action |-> action,
                                before |-> state,
                                after |-> state',
                                lastStarted |-> started[Len(started)]])
                        /\ dispatchLog' = Append(dispatchLog,
                               [by |-> "runValidation", call |-> run.runId,
                                action |-> action])
                   ELSE UNCHANGED <<state, completions, dispatchLog>>
    /\ UNCHANGED <<sheetDefinitions, engineVars, builderVars, validationTimeoutId,
                   timers, runIdCounter, mandated, started, standaloneVars>>

\* The state the orchestrator is built on: in preview, with the row the custom
\* validator rejects reported, and with dirty rows untracked or tracked.
OrchestratorStates ==
    {[buildInitialState(Sheets(TextColumn("a"))) EXCEPT
         !.mode = "preview",
         !.parsedFile = Some("csv"),
         !.columnMappings = Some("suggested"),
         !.sheetData = SheetStates(<<[a |-> "x"], [a |-> "y"]>>,
                                   <<[sheetId |-> "s2", rows |-> <<>>]>>),
         !.validationErrors = <<[sheetId |-> "s1", columnId |-> "a", rowIndex |-> 1,
                                 message |-> "custom"]>>,
         !.dirtyRows = dirty] :
       dirty \in {None, Some([s1 |-> {}])}}

InitOrchestrator ==
    /\ sheetDefinitions = Sheets(WithValidators(TextColumn("a"), <<Custom, Required>>))
    /\ NoEngine
    /\ initialState \in OrchestratorStates
    /\ buildSteps = <<>>
    /\ builtState = NotBuilt
    /\ NoConfirmation
    /\ state = initialState
    /\ NoOrchestration
    /\ NoStandalone

NextOrchestrator ==
    \/ changeCell
    \/ removeRows
    \/ setMappings
    \/ confirmMappings
    \/ confirmMappingsAfterGetState
    \/ dispatchChange
    \/ timeoutFires
    \/ runValidation

SpecOrchestrator == InitOrchestrator /\ [][NextOrchestrator]_vars

\* A dispatched VALIDATION_COMPLETED was applied: it changed the store.
Committed(completion) == completion.after # completion.before

CommittedRuns == {i \in DOMAIN completions : Committed(completions[i])}

\* No timer is scheduled and no run awaits its validators.
Quiescent == timers = {} /\ runs = {}

\* Every mandating dispatchChange call came before any timer had fired.
Burst ==
    /\ mandated # <<>>
    /\ \A i \in DOMAIN mandated : mandated[i].runsStarted = 0

\* C1: after a burst of mandating dispatchChange calls, each made before the
\* timer of the one before fired, at most one VALIDATION_COMPLETED is applied to
\* the state, it carries the run id of the last call of the burst, and once the
\* timer has fired and the run has finished exactly one was applied.
C1_BurstCommitsLastRunOnce ==
    Burst =>
        /\ Cardinality(CommittedRuns) <= 1
        /\ \A i \in CommittedRuns :
              /\ completions[i].action.payload.runId = mandated[Len(mandated)].runId
              /\ completions[i].runId = mandated[Len(mandated)].runId
        /\ Quiescent => Cardinality(CommittedRuns) = 1

\* A burst of at least two mandating calls has finished with its one commit.
C1_Witness ==
    /\ Burst
    /\ Len(mandated) >= 2
    /\ Quiescent
    /\ Cardinality(CommittedRuns) = 1

\* C2: a VALIDATION_COMPLETED whose run id is not the stored one leaves
\* validationErrors and validationInProgress as they were; one whose run id is
\* the stored one sets validationErrors to its errors and clears the flag.
C2_CompletedMatchesRunId ==
    \A i \in DOMAIN completions :
        LET before == completions[i].before
            after == completions[i].after
            payload == completions[i].action.payload
        IN  IF before.validationRunId = Some(payload.runId)
            THEN /\ after.validationErrors = payload.errors
                 /\ ~after.validationInProgress
            ELSE /\ after.validationErrors = before.validationErrors
                 /\ after.validationInProgress = before.validationInProgress

\* A stale result with other errors than the stored ones was dispatched while the
\* state was validating, and a current result was dispatched as well.
C2_Witness ==
    /\ \E i \in DOMAIN completions :
          /\ completions[i].before.validationRunId # Some(completions[i].action.payload.runId)
          /\ completions[i].before.validationInProgress
          /\ completions[i].errors # completions[i].before.validationErrors
    /\ \E i \in DOMAIN completions :
          /\ completions[i].before.validationRunId = Some(completions[i].action.payload.runId)
          /\ completions[i].before.validationInProgress
          /\ completions[i].errors # completions[i].before.validationErrors

\* C3: whatever the order of the timers and of the runs' completions, a result is
\* applied only if it is the one of the run started last, and once every timer
\* has fired and every run has finished the store holds the errors that the run
\* started last has computed.
C3_LatestStartedRunWins ==
    /\ \A i \in DOMAIN completions :
          Committed(completions[i]) => completions[i].runId = completions[i].lastStarted
    /\ (Quiescent /\ started # <<>>) =>
          \E i \in DOMAIN completions :
             /\ completions[i].runId = started[Len(started)]
             /\ state.validationErrors = completions[i].errors

\* Two runs were started, the superseded one finished after the newer one with
\* other errors, and the store holds the errors of the newer one.
C3_Witness ==
    /\ Quiescent
    /\ Len(started) = 2
    /\ Len(completions) = 2
    /\ completions[1].runId = started[2]
    /\ completions[2].runId = started[1]
    /\ completions[1].errors # completions[2].errors
    /\ state.validationErrors = completions[1].errors

(***************************************************************************)
(* Validation calls made one after the other on sheets with a reference    *)
(* column: column a of s1 refers to column r of s2, and the rows of s2     *)
(* change between the calls.                                               *)
(***************************************************************************)
MaxCalls == 2         \* validation calls in a row

ReferenceColumn(id, sheetId, sheetColumnId) ==
    [id |-> id, type |-> "reference",
     typeArguments |-> [sheetId |-> sheetId, sheetColumnId |-> sheetColumnId]]

ReferenceSheets ==
    <<[id |-> "s1", columns |-> <<ReferenceColumn("a", "s2", "r"), TextColumn("b")>>],
      [id |-> "s2", columns |-> <<TextColumn("r")>>]>>

\* The rows of the referenced sheet: none; one value; a value twice and another
\* one; an empty cell, a row without the column and a value.
ReferencedRows ==
    {<<>>, <<[r |-> "x"]>>, <<[r |-> "y"], [r |-> "x"], [r |-> "y"]>>,
     <<[r |-> ""], [q |-> "x"], [r |-> "y"]>>}

ReferringRows == <<[a |-> "x"], [a |-> "y"]>>

ReferenceStates(referenced) ==
    <<[sheetId |-> "s1", rows |-> ReferringRows], [sheetId |-> "s2", rows |-> referenced]>>

InitReference ==
    /\ sheetDefinitions = ReferenceSheets
    /\ sheetStates \in {ReferenceStates(referenced) : referenced \in ReferencedRows}
    /\ existingErrors = <<>>
    /\ dirtyRows \in {[s1 |-> {0}], [s1 |-> {0, 1}]}
    /\ NoResults
    /\ NoBuilder

\* The rows of the referenced sheet are replaced.
ChangeReferencedSheet ==
    /\ Len(calls) < MaxCalls
    /\ \E referenced \in ReferencedRows :
          /\ sheetStates # ReferenceStates(referenced)
          /\ sheetStates' = ReferenceStates(referenced)
    /\ UNCHANGED <<sheetDefinitions, existingErrors, dirtyRows, requiredCall, fullResult,
                   incResult, calls, builderVars, orchVars, standaloneVars>>

RepeatApplyValidations ==
    /\ Len(calls) < MaxCalls
    /\ \E promise \in applyValidations(sheetDefinitions, sheetStates) :
          calls' = Append(calls, [incremental |-> FALSE, states |-> sheetStates,
                                  rowIndices |-> {0, 1}, promise |-> promise])
    /\ UNCHANGED <<sheetDefinitions, sheetStates, existingErrors, dirtyRows, requiredCall,
                   fullResult, incResult, builderVars, orchVars, standaloneVars>>

RepeatApplyValidationsToSpecificRows ==
    /\ Len(calls) < MaxCalls
    /\ \E promise \in applyValidationsToSpecificRows(sheetDefinitions, sheetStates,
                                                     existingErrors, dirtyRows) :
          calls' = Append(calls, [incremental |-> TRUE, states |-> sheetStates,
                                  rowIndices |-> dirtyRows["s1"], promise |-> promise])
    /\ UNCHANGED <<sheetDefinitions, sheetStates, existingErrors, dirtyRows, requiredCall,
                   fullResult, incResult, builderVars, orchVars, standaloneVars>>

NextReference ==
    \/ ChangeReferencedSheet
    \/ RepeatApplyValidations
    \/ RepeatApplyValidationsToSpecificRows

SpecReference == InitReference /\ [][NextReference]_vars

\* The distinct present values of column r of sheet s2 in the states of a call.
PresentReferenced(states) ==
    {states[2].rows[i]["r"] : i \in {j \in DOMAIN states[2].rows :
                                        /\ "r" \in DOMAIN states[2].rows[j]
                                        /\ states[2].rows[j]["r"] # ""}}

\* The includes errors of a call on the cell of column a in the row rowIndex.
ReferenceErrors(call, rowIndex) ==
    Len(SelectSeq(call.promise.value,
                  LAMBDA error : /\ error.sheetId = "s1" /\ error.columnId = "a"
                                 /\ error.rowIndex = rowIndex
                                 /\ error.message = "includes"))

\* C11: on every validation call, full or incremental, a validated cell of the
\* reference column gets the includes error exactly if its value is none of the
\* distinct present values that the referenced column has in the sheet states
\* passed to that call, whatever the states of the calls before were.
C11_ReferenceAllowedSetPerCall ==
    \A i \in DOMAIN calls :
        /\ calls[i].promise.status = "fulfilled"
        /\ \A rowIndex \in calls[i].rowIndices :
              ReferenceErrors(calls[i], rowIndex)
                 = (IF calls[i].states[1].rows[rowIndex + 1]["a"]
                         \in PresentReferenced(calls[i].states)
                    THEN 0 ELSE 1)

\* Between a full and an incremental call the referenced sheet lost the value x
\* and gained y: the first call accepts x and rejects y, the second the reverse.
C11_Witness ==
    /\ Len(calls) = 2
    /\ ~calls[1].incremental
    /\ calls[2].incremental
    /\ calls[2].rowIndices = {0, 1}
    /\ PresentReferenced(calls[1].states) = {"x"}
    /\ PresentReferenced(calls[2].states) = {"y"}
    /\ ReferenceErrors(calls[1], 0) = 0
    /\ ReferenceErrors(calls[1], 1) = 1
    /\ ReferenceErrors(calls[2], 0) = 1
    /\ ReferenceErrors(calls[2], 1) = 0

\* The state after the first n pending actions, each applied to the state that the
\* actions before it have produced.
RECURSIVE FoldedUpTo(_)
FoldedUpTo(n) ==
    IF n = 0 THEN initialState ELSE reducer(FoldedUpTo(n - 1), buildSteps[n])

\* Some sheet has a non-empty set in the dirty-row map of the state.
SomeRowDirty(s) ==
    /\ s.dirtyRows.defined
    /\ \E id \in DOMAIN s.dirtyRows.value : s.dirtyRows.value[id] # {}

\* The (sheetId, rowIndex) pairs of the rows of the state that hold data.
RowsWithData(s) ==
    UNION {{<<s.sheetData[i].sheetId, r - 1>> :
                r \in {q \in DOMAIN s.sheetData[i].rows : hasData(s.sheetData[i].rows[q])}} :
           i \in DOMAIN s.sheetData}

DirtyPairs(s) ==
    UNION {{<<id, rowIndex>> : rowIndex \in s.dirtyRows.value[id]} :
           id \in DOMAIN s.dirtyRows.value}

LaunchedPairs(promise) ==
    {<<promise.launched[i].sheetId, promise.launched[i].rowIndex>> :
        i \in DOMAIN promise.launched}

\* C12: getState returns the state reached by folding the actions pending at
\* the call in their order from the base state, with new validation errors at
\* most; the validation is incremental exactly if the folded state has a dirty-row map
\* with a non-empty set, and then it validates dirty rows only, and otherwise
\* it validates every row that holds data.
C12_GetStateFoldsThenChooses ==
    Returned(builtState) =>
        LET folded == FoldedUpTo(builtState.steps)
        IN  /\ [builtState.value EXCEPT !.validationErrors = <<>>]
                  = [folded EXCEPT !.validationErrors = <<>>]
            /\ builtState.incremental = SomeRowDirty(folded)
            /\ builtState.validation = "fulfilled" =>
                  LaunchedPairs(builtState)
                     = (IF SomeRowDirty(folded)
                        THEN RowsWithData(folded) \cap DirtyPairs(folded)
                        ELSE RowsWithData(folded))

\* Dirty rows are tracked and none is dirty after two mapping changes: the
\* validation is the full one and covers both rows.
C12_Witness ==
    /\ Returned(builtState)
    /\ builtState.validation = "fulfilled"
    /\ ~builtState.incremental
    /\ builtState.steps = 2
    /\ builtState.value.dirtyRows = Some([s1 |-> {}])
    /\ LaunchedPairs(builtState) = {<<"s1", 0>>, <<"s1", 1>>}

\* The (sheetId, rowIndex) pairs that the dirty-row map of a state holds.
DirtyEntries(s) == IF s.dirtyRows.defined THEN DirtyPairs(s) ELSE {}

\* The step applies a VALIDATION_COMPLETED that carries the run id of the state.
CommitStep ==
    /\ Len(completions') = Len(completions) + 1
    /\ Committed(completions'[Len(completions')])

\* The rows the run of a completion has revalidated: the dirty rows of the state
\* getState folded when the validation was incremental, and else every row.
RevalidatedBy(completion) ==
    IF completion.incremental
    THEN DirtyEntries([dirtyRows |-> completion.dirtyRows])
    ELSE UNION {{<<completion.sheetData[i].sheetId, r - 1>> :
                    r \in DOMAIN completion.sheetData[i].rows} :
                i \in DOMAIN completion.sheetData}

\* The step commits the result of a run that has revalidated the pair.
CommitsRevalidationOf(pair) ==
    /\ CommitStep
    /\ pair \in RevalidatedBy(completions'[Len(completions')])

DispatchedBy(runId) ==
    {i \in DOMAIN dispatchLog :
        dispatchLog[i].by = "dispatchChange" /\ dispatchLog[i].call = runId}

\* The positions at which a VALIDATION_COMPLETED with the run id was dispatched.
CompletedAt(runId) ==
    {i \in DOMAIN dispatchLog :
        /\ dispatchLog[i].action.type = "VALIDATION_COMPLETED"
        /\ dispatchLog[i].action.payload.runId = runId}

\* C14: a dispatchChange call that mandates validation dispatches
\* VALIDATION_STARTED with its run id first and then every pending action in
\* queue order, one after the other; VALIDATION_COMPLETED with that run id is
\* dispatched at most once, and after all of them.
C14_StartedThenStepsThenCompleted ==
    \A m \in DOMAIN mandated :
        LET runId == mandated[m].runId
            pending == mandated[m].pending
            at == DispatchedBy(runId)
            first == CHOOSE i \in at : \A j \in at : i <= j
        IN  /\ Cardinality(at) = Len(pending) + 1
            /\ at = first..(first + Len(pending))
            /\ dispatchLog[first].action
                  = [type |-> "VALIDATION_STARTED", payload |-> [runId |-> runId]]
            /\ \A k \in 1..Len(pending) : dispatchLog[first + k].action = pending[k]
            /\ Cardinality(CompletedAt(runId)) <= 1
            /\ \A c \in CompletedAt(runId) : c > first + Len(pending)

\* A call with two pending actions was followed by another call, and the result
\* of its run was dispatched after the dispatches of both calls.
C14_Witness ==
    /\ Len(mandated) >= 2
    /\ Len(mandated[1].pending) = 2
    /\ mandated[1].pending[1].type = "COLUMN_MAPPING_CHANGED"
    /\ mandated[1].pending[2].type = "CELL_CHANGED"
    /\ CompletedAt(mandated[1].runId) # {}
    /\ \A c \in CompletedAt(mandated[1].runId), i \in DispatchedBy(mandated[2].runId) : c > i

\* The pending actions hold one of the three types that mandate a validation.
MandatingPending ==
    \E i \in DOMAIN buildSteps :
        buildSteps[i].type \in {"DATA_MAPPED", "CELL_CHANGED", "REMOVE_ROWS"}

\* The actions the step has added to the dispatch log.
NewlyDispatched ==
    {dispatchLog'[i].action : i \in (Len(dispatchLog) + 1)..Len(dispatchLog')}

\* The step is a dispatchChange call: it has drawn a run id.
DispatchChangeStep == runIdCounter' # runIdCounter

\* C15: a dispatchChange call with no pending DATA_MAPPED, CELL_CHANGED or
\* REMOVE_ROWS dispatches no VALIDATION_STARTED, leaves the timers, the timer
\* handle and state.validationRunId as they are and starts no run, and no
\* VALIDATION_COMPLETED ever carries its run id; a call with such a pending
\* action dispatches VALIDATION_STARTED and schedules the timer of its run.
C15_ValidationOnlyWhenMandated ==
    /\ [][DispatchChangeStep =>
            IF MandatingPending
            THEN /\ [type |-> "VALIDATION_STARTED", payload |-> [runId |-> runIdCounter']]
                       \in NewlyDispatched
                 /\ state'.validationRunId = Some(runIdCounter')
                 /\ \E t \in timers' : t.runId = runIdCounter'
                 /\ validationTimeoutId'.defined
            ELSE /\ \A action \in NewlyDispatched :
                       action.type \notin {"VALIDATION_STARTED", "VALIDATION_COMPLETED"}
                 /\ timers' = timers
                 /\ validationTimeoutId' = validationTimeoutId
                 /\ runs' = runs
                 /\ state'.validationRunId = state.validationRunId]_vars
    /\ [](\A i \in DOMAIN dispatchLog :
             dispatchLog[i].action.type = "VALIDATION_COMPLETED" =>
                 \E j \in 1..(i - 1) :
                    dispatchLog[j].action = [type |-> "VALIDATION_STARTED",
                                             payload |-> [runId |-> dispatchLog[i].call]])

\* A call without a mandating action was made, then a row removal was queued and
\* the next call has scheduled the only timer.
C15_Witness ==
    /\ runIdCounter = 2
    /\ Len(mandated) = 1
    /\ mandated[1].runId = 2
    /\ Len(mandated[1].pending) = 2
    /\ mandated[1].pending[2].type = "REMOVE_ROWS"
    /\ mandated[1].pending[1].type = "COLUMN_MAPPING_CHANGED"
    /\ Cardinality(timers) = 1
    /\ state.validationRunId = Some(2)

\* The run ids of the calls whose timer was cancelled: a later call has replaced
\* the timer before it fired.
Cancelled ==
    {mandated[m].runId : m \in DOMAIN mandated} \
        ({t.runId : t \in timers} \cup Range(started))

\* C16: at every moment at most one debounce timer is scheduled; a call that
\* mandates validation cancels the timer that is scheduled and leaves its own as
\* the only one, and a timer that was cancelled never starts a validation run.
C16_OneTimerAtMost ==
    /\ [](Cardinality(timers) <= 1)
    /\ [](\A t \in timers :
             /\ validationTimeoutId = Some(t.id)
             /\ t.runId = mandated[Len(mandated)].runId)
    /\ [][\A id \in Cancelled : id \in Cancelled' /\ id \notin Range(started')]_vars

\* The timer of the first call was cancelled by the second call, whose timer has
\* fired and started the only run.
C16_Witness ==
    /\ Len(mandated) = 2
    /\ Cancelled = {mandated[1].runId}
    /\ started = <<mandated[2].runId>>
    /\ timers = {}

(***************************************************************************)
(* The reducer under any sequence of actions, from the initial state.      *)
(***************************************************************************)
\* A state that a persistence restore hands to SET_STATE.
RestoredState ==
    [buildInitialState(Sheets(TextColumn("a"))) EXCEPT
        !.mode = "preview",
        !.sheetData = SheetStates(<<[a |-> "x"]>>, <<[sheetId |-> "s2", rows |-> <<>>]>>)]

\* One action of every type of ImporterAction.
ImporterActions ==
    {[type |-> "ENTER_DATA_MANUALLY", payload |-> [amountOfEmptyRowsToAdd |-> 1]],
     [type |-> "FILE_PARSED", payload |-> [parsed |-> "csv"]],
     [type |-> "UPLOAD"],
     [type |-> "COLUMN_MAPPING_CHANGED", payload |-> [mappings |-> "chosen"]],
     [type |-> "DATA_MAPPED", payload |-> [mappedData |-> MappedData]],
     [type |-> "CELL_CHANGED",
      payload |-> [sheetId |-> "s1", rowIndex |-> 0, value |-> [a |-> "y"]]],
     [type |-> "REMOVE_ROWS", payload |-> [sheetId |-> "s1", rows |-> <<[a |-> "y"]>>]],
     [type |-> "ADD_EMPTY_ROW"],
     [type |-> "SHEET_CHANGED", payload |-> [sheetId |-> "s2"]],
     [type |-> "SUBMIT"],
     [type |-> "PROGRESS", payload |-> [progress |-> 50]],
     [type |-> "COMPLETED", payload |-> <<>>],
     [type |-> "FAILED"],
     [type |-> "PREVIEW"],
     [type |-> "MAPPING"],
     [type |-> "RESET"],
     [type |-> "SET_STATE", payload |-> [state |-> RestoredState]],
     [type |-> "VALIDATION_STARTED", payload |-> [runId |-> 1]],
     [type |-> "VALIDATION_COMPLETED",
      payload |-> [runId |-> 1, errors |-> <<OldError("s1", 0)>>]]}

\* dispatch(action) on the store; the log keeps the last action and the mode of
\* the state it was applied to.
dispatchAction ==
    /\ \E action \in ImporterActions :
          /\ action.type = "ADD_EMPTY_ROW" =>
                \A i \in DOMAIN state.sheetData : Len(state.sheetData[i].rows) < MaxRows
          /\ action.type = "CELL_CHANGED" =>
                \E i \in DOMAIN state.sheetData :
                   /\ state.sheetData[i].sheetId = action.payload.sheetId
                   /\ Len(state.sheetData[i].rows) > action.payload.rowIndex
          /\ state' = dispatch(state, action)
          /\ dispatchLog' = <<[by |-> "dispatch", call |-> 0, action |-> action,
                               before |-> [mode |-> state.mode]]>>
    /\ UNCHANGED <<sheetDefinitions, engineVars, builderVars, validationTimeoutId, timers,
                   runs, runIdCounter, mandated, started, completions, standaloneVars>>

InitReducer ==
    /\ sheetDefinitions = Sheets(TextColumn("a"))
    /\ NoEngine
    /\ NoBuilder

SpecReducer == InitReducer /\ [][dispatchAction]_vars

\* The edges of the mode diagram.
ModeEdges ==
    {<<"upload", "mapping">>, <<"mapping", "preview">>, <<"preview", "mapping">>,
     <<"preview", "submit">>, <<"submit", "completed">>, <<"submit", "failed">>,
     <<"failed", "preview">>}

\* C17 as stated: from the initial state in mode upload, every change of the mode
\* by a reducer action follows an edge of the mode diagram, and completed is
\* never left.
C17_ModeFollowsDiagram ==
    dispatchLog # <<>> =>
        \/ state.mode = dispatchLog[1].before.mode
        \/ <<dispatchLog[1].before.mode, state.mode>> \in ModeEdges

\* The mode that an action of the type names, whatever the mode was.
ModeNamedBy(action, mode) ==
    CASE action.type \in {"UPLOAD", "RESET"} -> "upload"
      [] action.type \in {"FILE_PARSED", "MAPPING"} -> "mapping"
      [] action.type \in {"ENTER_DATA_MANUALLY", "DATA_MAPPED", "PREVIEW"} -> "preview"
      [] action.type = "SUBMIT" -> "submit"
      [] action.type = "COMPLETED" -> "completed"
      [] action.type = "FAILED" -> "failed"
      [] action.type = "SET_STATE" -> action.payload.state.mode
      [] OTHER -> mode

\* C17 amended: the mode after an action is the one the action type names, from
\* every mode, and every other action leaves the mode as it is.
C17_ModeFollowsAction ==
    dispatchLog # <<>> =>
        state.mode = ModeNamedBy(dispatchLog[1].action, dispatchLog[1].before.mode)

\* Manual data entry has taken the initial state from upload to preview, an edge
\* that is none of the diagram.
C17_Witness ==
    /\ dispatchLog # <<>>
    /\ dispatchLog[1].action.type = "ENTER_DATA_MANUALLY"
    /\ dispatchLog[1].before.mode = "upload"
    /\ state.mode = "preview"

(***************************************************************************)
(* buildState: the initial state, or the state the storage holds.  The     *)
(* storage is outside: load (getIndexedDBState) returns a state, returns   *)
(* nothing, throws or rejects; save (setIndexedDBState), which is not      *)
(* awaited, returns, throws or rejects.                                    *)
(***************************************************************************)
Settled(status, value, loadCalled, saveCalled) ==
    [status |-> status, value |-> value, loadCalled |-> loadCalled, saveCalled |-> saveCalled]

buildStateWithIndexedDB(definitions, persistenceConfig, storage) ==
    IF storage.load \in {"throws", "rejects"}
    THEN Settled("rejected", None, TRUE, FALSE)
    ELSE IF storage.load = "stored"
    THEN Settled("fulfilled", storage.stored, TRUE, FALSE)
    ELSE IF storage.save = "throws"
    THEN Settled("rejected", None, TRUE, TRUE)
    ELSE Settled("fulfilled", buildInitialState(definitions), TRUE, TRUE)

\* buildState with the bug of letting the failure of the storage through.
buildStateWithoutCatch(definitions, persistenceConfig, storage) ==
    LET defaultState == buildInitialState(definitions)
    IN  IF ~persistenceConfig.defined
        THEN Settled("rejected", None, FALSE, FALSE)
        ELSE IF ~("enabled" \in DOMAIN persistenceConfig.value
                  /\ persistenceConfig.value.enabled)
        THEN Settled("fulfilled", defaultState, FALSE, FALSE)
        ELSE buildStateWithIndexedDB(definitions, persistenceConfig.value, storage)

buildState(definitions, persistenceConfig, storage) ==
    LET defaultState == buildInitialState(definitions)
    IN  IF ~persistenceConfig.defined
        THEN Settled("fulfilled", defaultState, FALSE, FALSE)
        ELSE IF ~("enabled" \in DOMAIN persistenceConfig.value
                  /\ persistenceConfig.value.enabled)
        THEN Settled("fulfilled", defaultState, FALSE, FALSE)
        ELSE LET inner == buildStateWithIndexedDB(definitions, persistenceConfig.value,
                                                  storage)
             IN  IF inner.status = "rejected"
                 THEN Settled("fulfilled", defaultState, inner.loadCalled, inner.saveCalled)
                 ELSE inner

\* persistenceConfig: left out, disabled, without the flag, enabled without and
\* with a custom key.
PersistenceConfigs ==
    {None, Some([enabled |-> FALSE]), Some([customKey |-> "k"]), Some([enabled |-> TRUE]),
     Some([enabled |-> TRUE, customKey |-> "k"])}

\* The states the storage may hold: one in preview with data, one in mode failed.
StoredStates ==
    {RestoredState, [buildInitialState(Sheets(TextColumn("a"))) EXCEPT !.mode = "failed"]}

Storages ==
    {[load |-> load, save |-> save, stored |-> stored] :
        load \in {"stored", "absent", "throws", "rejects"},
        save \in {"returns", "throws", "rejects"},
        stored \in StoredStates}

InitLoad ==
    /\ sheetDefinitions \in {Sheets(TextColumn("a")), Sheets(EnumColumn("a"))}
    /\ NoEngine
    /\ initialState = buildInitialState(sheetDefinitions)
    /\ buildSteps = <<>>
    /\ builtState = NotBuilt
    /\ NoConfirmation
    /\ state = initialState
    /\ NoOrchestration
    /\ persistence \in {[config |-> config, storage |-> storage] :
                          config \in PersistenceConfigs, storage \in Storages}
    /\ loadedState = [status |-> "pending"]
    /\ NoPipeline

CallBuildState ==
    /\ loadedState.status = "pending"
    /\ loadedState' = buildState(sheetDefinitions, persistence.config, persistence.storage)
    /\ UNCHANGED <<sheetDefinitions, engineVars, builderVars, orchVars, persistence, pipeline,
                   transformed, transformations>>

SpecLoad == InitLoad /\ [][CallBuildState]_vars

PersistenceEnabled ==
    /\ persistence.config.defined
    /\ "enabled" \in DOMAIN persistence.config.value
    /\ persistence.config.value.enabled

\* C18: the promise of buildState is never rejected.  With persistence disabled
\* it holds the newly built initial state and load was not called; with
\* persistence enabled it holds the stored state when load returns one, and the
\* newly built initial state when load returns nothing or fails.
C18_BuildStateNeverFails ==
    loadedState.status # "pending" =>
        /\ loadedState.status = "fulfilled"
        /\ ~PersistenceEnabled =>
              /\ loadedState.value = buildInitialState(sheetDefinitions)
              /\ ~loadedState.loadCalled
        /\ PersistenceEnabled =>
              /\ loadedState.loadCalled
              /\ loadedState.value
                    = (IF persistence.storage.load = "stored"
                       THEN persistence.storage.stored
                       ELSE buildInitialState(sheetDefinitions))

\* Persistence is enabled and load rejects: the initial state is returned.
C18_Witness ==
    /\ loadedState.status = "fulfilled"
    /\ PersistenceEnabled
    /\ persistence.storage.load = "rejects"
    /\ loadedState.loadCalled
    /\ loadedState.value = buildInitialState(sheetDefinitions)
    /\ loadedState.value # persistence.storage.stored

(***************************************************************************)
(* Validation repeated on unchanged data: full validation called again,    *)
(* and incremental validation called again on the errors it returned.      *)
(***************************************************************************)
\* Rows of s1: the custom validator rejects a, a is missing, a is valid.
RepeatedRows ==
    {<<[a |-> "y"], [b |-> "x"]>>, <<[b |-> "x"], [a |-> "y"]>>,
     <<[a |-> "x"], [a |-> "y"]>>, <<[a |-> "y"]>>}

RepeatedExisting ==
    {<<>>, <<OldError("s1", 0)>>, <<OldError("s1", 1), OldError("s1", 0)>>,
     <<OldError("s2", 0), OldError("s1", 1)>>}

RepeatedDirty == {[s1 |-> {0}], [s1 |-> {0, 1}], [s1 |-> {1}, s2 |-> {0}]}

InitRepeat ==
    /\ sheetDefinitions = Sheets(WithValidators(TextColumn("a"), <<Custom, Required>>))
    /\ sheetStates \in {SheetStates(rows, <<[sheetId |-> "s2", rows |-> <<[q |-> "x"]>>]>>) :
                          rows \in RepeatedRows}
    /\ existingErrors \in RepeatedExisting
    /\ dirtyRows \in RepeatedDirty
    /\ NoResults
    /\ NoBuilder

\* applyValidationsToSpecificRows called again, with the errors that the call
\* before has returned as the existing errors.
RevalidateOwnOutput ==
    /\ incResult.status = "fulfilled"
    /\ Len(calls) < MaxCalls
    /\ LET previous == IF \E i \in DOMAIN calls : calls[i].incremental
                       THEN calls[CHOOSE i \in DOMAIN calls :
                                     /\ calls[i].incremental
                                     /\ \A j \in DOMAIN calls :
                                           calls[j].incremental => j <= i].promise.value
                       ELSE incResult.value
       IN  \E promise \in applyValidationsToSpecificRows(sheetDefinitions, sheetStates,
                                                         previous, dirtyRows) :
              calls' = Append(calls, [incremental |-> TRUE, states |-> sheetStates,
                                      rowIndices |-> dirtyRows["s1"], promise |-> promise])
    /\ UNCHANGED <<sheetDefinitions, sheetStates, existingErrors, dirtyRows, requiredCall,
                   fullResult, incResult, builderVars, orchVars, standaloneVars>>

NextRepeat ==
    \/ CallApplyValidationsToSpecificRows
    \/ RevalidateOwnOutput
    \/ RepeatApplyValidations

SpecRepeat == InitRepeat /\ [][NextRepeat]_vars

\* The two error lists hold the same errors the same number of times.
SameErrors(first, second) ==
    \A error \in Range(first) \cup Range(second) : Count(first, error) = Count(second, error)

\* C19: two full validations of the same definitions and sheet states return the
\* same errors, and incremental validation called again with the same dirty-row
\* map on the errors it has returned returns the same errors.
C19_RevalidationIdempotent ==
    /\ \A i, j \in DOMAIN calls :
          (~calls[i].incremental /\ ~calls[j].incremental) =>
              /\ calls[i].promise.status = calls[j].promise.status
              /\ SameErrors(calls[i].promise.value, calls[j].promise.value)
    /\ \A i \in DOMAIN calls :
          calls[i].incremental =>
              /\ calls[i].promise.status = "fulfilled"
              /\ SameErrors(calls[i].promise.value, incResult.value)

\* The second incremental run has replaced the two errors of the dirty rows by
\* the same two errors in the other order, after the kept error of s2.
C19_Witness ==
    /\ incResult.status = "fulfilled"
    /\ Len(incResult.value) = 3
    /\ Len(calls) >= 1
    /\ calls[1].incremental
    /\ calls[1].promise.value # incResult.value
    /\ SameErrors(calls[1].promise.value, incResult.value)

(***************************************************************************)
(* Pipeline: steps are pushed, and transform runs the value through them.  *)
(* A cell value is a string, modelled as the sequence of its characters;   *)
(* a step is a transformer definition, and its transform is what the       *)
(* transformer of that name does to a string.                              *)
(***************************************************************************)
MaxPipeline == 3      \* steps pushed to one pipeline
MaxChars == 2         \* characters of a cell value

Chars == {"a", "A", " "}

CellValues == UNION {[1..n -> Chars] : n \in 0..MaxChars}

\* The steps pushed to the pipeline of the model.
Transformers == {[transformer |-> name] : name \in {"strip", "upcase", "downcase", "initial"}}

\* The string without its leading and trailing blanks.
RECURSIVE strip(_)
strip(value) ==
    IF Len(value) = 0 THEN value
    ELSE IF Head(value) = " " THEN strip(Tail(value))
    ELSE IF value[Len(value)] = " " THEN strip(SubSeq(value, 1, Len(value) - 1))
    ELSE value

\* step.transform(value)
stepTransform(step, value) ==
    CASE step.transformer = "strip" -> strip(value)
      [] step.transformer = "upcase" ->
            [i \in 1..Len(value) |-> IF value[i] = "a" THEN "A" ELSE value[i]]
      [] step.transformer = "downcase" ->
            [i \in 1..Len(value) |-> IF value[i] = "A" THEN "a" ELSE value[i]]
      [] step.transformer = "initial" -> SubSeq(value, 1, IF Len(value) = 0 THEN 0 ELSE 1)
      [] step.transformer = "rest" -> SubSeq(value, 2, Len(value))

\* Pipeline.transform with the bug of running the steps from the last to the first.
RECURSIVE pipelineTransformLastFirst(_, _)
pipelineTransformLastFirst(steps, value) ==
    IF Len(steps) = 0 THEN value
    ELSE pipelineTransformLastFirst(SubSeq(steps, 1, Len(steps) - 1),
                                    stepTransform(steps[Len(steps)], value))

\* Pipeline.transform: current starts as the value, and every step in turn
\* replaces it by its transform.
RECURSIVE pipelineTransform(_, _)
pipelineTransform(steps, value) ==
    IF Len(steps) = 0 THEN value
    ELSE pipelineTransform(Tail(steps), stepTransform(Head(steps), value))

\* Pipeline.push(step)
push ==
    /\ Len(pipeline.steps) < MaxPipeline
    /\ \E step \in Transformers : pipeline' = [steps |-> Append(pipeline.steps, step)]
    /\ UNCHANGED <<sheetDefinitions, engineVars, builderVars, orchVars, persistence,
                   loadedState, transformed, transformations>>

\* Pipeline.transform(value)
transform ==
    /\ \E value \in CellValues :
          transformed' = [called |-> TRUE, value |-> value, steps |-> pipeline.steps,
                          result |-> pipelineTransform(pipeline.steps, value)]
    /\ UNCHANGED <<sheetDefinitions, engineVars, builderVars, orchVars, persistence,
                   loadedState, pipeline, transformations>>

InitPipeline ==
    /\ sheetDefinitions = Sheets(TextColumn("a"))
    /\ NoEngine
    /\ initialState = buildInitialState(sheetDefinitions)
    /\ buildSteps = <<>>
    /\ builtState = NotBuilt
    /\ NoConfirmation
    /\ state = initialState
    /\ NoOrchestration
    /\ persistence = <<>>
    /\ loadedState = [status |-> "pending"]
    /\ NoPipeline

SpecPipeline == InitPipeline /\ [][push \/ transform]_vars

\* stepN(...step1(value)) for the first n steps of the call.
RECURSIVE Composed(_)
Composed(n) ==
    IF n = 0 THEN transformed.value
    ELSE stepTransform(transformed.steps[n], Composed(n - 1))

\* C20: transform returns stepN(...step1(v)) for the steps in the order in which
\* they were pushed, and the value itself when the pipeline has no steps.
C20_PipelineComposesInOrder ==
    transformed.called =>
        /\ transformed.result = Composed(Len(transformed.steps))
        /\ transformed.steps = <<>> => transformed.result = transformed.value

\* strip was pushed before initial: " a" becomes "a", and the other order would
\* have given the empty string.
C20_Witness ==
    /\ transformed.called
    /\ transformed.steps = <<[transformer |-> "strip"], [transformer |-> "initial"]>>
    /\ transformed.value = <<" ", "a">>
    /\ transformed.result = <<"a">>
    /\ stepTransform([transformer |-> "strip"],
                     stepTransform([transformer |-> "initial"], transformed.value)) = <<>>

(***************************************************************************)
(* The result of a validation call and the order in which its evaluations  *)
(* resolve.                                                                *)
(***************************************************************************)
\* The error that the evaluation pushes when it resolves with a message.
ErrorOfLaunch(launch) ==
    [sheetId |-> launch.sheetId, columnId |-> launch.columnId,
     rowIndex |-> launch.rowIndex, message |-> launch.result.message]

\* The list holds one error for each launched evaluation that resolved with a
\* message, and nothing else.
HoldsErrorsOfAll(errors, launched) ==
    /\ \A i \in DOMAIN launched :
          /\ launched[i].result.kind \in {"valid", "message"}
          /\ launched[i].result.kind = "message" =>
                Count(errors, ErrorOfLaunch(launched[i]))
                    = Cardinality({j \in DOMAIN launched :
                                      /\ launched[j].result.kind = "message"
                                      /\ ErrorOfLaunch(launched[j]) = ErrorOfLaunch(launched[i])})
    /\ \A e \in DOMAIN errors :
          \E i \in DOMAIN launched :
              launched[i].result.kind = "message" /\ ErrorOfLaunch(launched[i]) = errors[e]

\* C21: a validation call that returns an error list returns, for every order in
\* which its evaluations resolve, the same errors: one for each evaluation it
\* launched that resolved with a message, so the error of an evaluation that
\* resolves last is in the result.
C21_ResultIndependentOfResolutionOrder ==
    /\ fullResult.status = "fulfilled" =>
          /\ HoldsErrorsOfAll(fullResult.value, fullResult.launched)
          /\ \A other \in applyValidations(sheetDefinitions, sheetStates) :
                /\ other.status = "fulfilled"
                /\ SameErrors(other.value, fullResult.value)
    /\ incResult.status = "fulfilled" =>
          /\ HoldsErrorsOfAll(incResult.newErrors, incResult.launched)
          /\ \A other \in applyValidationsToSpecificRows(sheetDefinitions, sheetStates,
                                                        existingErrors, dirtyRows) :
                /\ other.status = "fulfilled"
                /\ SameErrors(other.value, incResult.value)

\* Two evaluations returned a message and the one launched first resolved last:
\* its error is the second of the result.
C21_Witness ==
    /\ fullResult.status = "fulfilled"
    /\ Len(fullResult.value) = 2
    /\ Len(fullResult.launched) >= 2
    /\ fullResult.launched[1].result.kind = "message"
    /\ fullResult.value[2] = ErrorOfLaunch(fullResult.launched[1])
    /\ fullResult.value[1] # fullResult.value[2]

(***************************************************************************)
(* Incremental validation stays within the dirty rows.                     *)
(***************************************************************************)
\* C22: incremental validation launches no evaluation on a row whose index is
\* not in the dirty set of its sheet, hence none on a sheet whose dirty set is
\* absent or empty, and every new error belongs to a row of the dirty-row map.
C22_IncrementalOnlyDirtyRows ==
    incResult.status # "pending" =>
        /\ \A i \in DOMAIN incResult.launched : IsDirty(incResult.launched[i])
        /\ \A id \in {"s1", "s2"} :
              (id \notin DOMAIN dirtyRows \/ dirtyRows[id] = {}) =>
                  \A i \in DOMAIN incResult.launched : incResult.launched[i].sheetId # id
        /\ \A i \in DOMAIN incResult.newErrors : IsDirty(incResult.newErrors[i])

\* Both rows of s1 miss the required column and only row 1 is dirty; the dirty
\* set of s2, whose row misses its required column too, is empty: the one
\* evaluation and the one new error are those of row 1 of s1.
C22_Witness ==
    /\ incResult.status = "fulfilled"
    /\ RowsOf("s1") = <<[b |-> "x"], [b |-> "x"]>>
    /\ dirtyRows = [s1 |-> {1}, s2 |-> {}]
    /\ Len(incResult.launched) = 1
    /\ incResult.newErrors = <<[sheetId |-> "s1", columnId |-> "a", rowIndex |-> 1,
                                message |-> "required"]>>

(***************************************************************************)
(* Progress of the orchestrator: a scheduled timer that is not cleared     *)
(* fires.                                                                  *)
(***************************************************************************)
SpecOrchestratorLive == SpecOrchestrator /\ WF_vars(timeoutFires)

\* The validators of every started run settle: again and again no run is left
\* awaiting them.
ValidatorsSettle == []<>(runs = {})

\* The dispatchChange call that handed out runId mandated validation, and no
\* dispatchChange call was made since.
LatestMandating(runId) ==
    /\ runIdCounter = runId
    /\ \E i \in DOMAIN mandated : mandated[i].runId = runId

\* runValidation has dispatched a VALIDATION_COMPLETED that carries runId.
CompletedDispatched(runId) ==
    \E i \in DOMAIN dispatchLog :
        /\ dispatchLog[i].by = "runValidation"
        /\ dispatchLog[i].action.type = "VALIDATION_COMPLETED"
        /\ dispatchLog[i].action.payload.runId = runId

\* C23: after a dispatchChange call that mandates validation, when the timer
\* fires and the validators settle, either another batch is dispatched or a
\* VALIDATION_COMPLETED with the run id of that call is dispatched and the state
\* is no longer validating, also when a validator of the run fails.
C23_LatestRunCompletes ==
    ValidatorsSettle =>
        \A runId \in 1..MaxRuns :
            LatestMandating(runId) ~>
                \/ runIdCounter > runId
                \/ CompletedDispatched(runId) /\ ~state.validationInProgress

\* The custom validator threw on the edited row of the latest run; its
\* VALIDATION_COMPLETED was dispatched all the same and the state has stopped
\* validating.
C23_Witness ==
    /\ LatestMandating(runIdCounter)
    /\ Len(completions) >= 1
    /\ completions[Len(completions)].runId = runIdCounter
    /\ completions[Len(completions)].validation = "rejected"
    /\ CompletedDispatched(runIdCounter)
    /\ ~state.validationInProgress

(***************************************************************************)
(* The sheet data a committed result was computed from.                    *)
(***************************************************************************)
\* C24: whenever a VALIDATION_COMPLETED is applied to the state, its errors were
\* computed from sheet data equal to the sheet data of the state at that moment.
C24_CommittedErrorsOfCurrentData ==
    \A i \in DOMAIN completions :
        Committed(completions[i]) =>
            completions[i].sheetData = completions[i].before.sheetData

(***************************************************************************)
(* Incremental revalidation after edits: the sheets are validated in full, *)
(* rows are edited and marked dirty, and the new data is validated both    *)
(* incrementally, on the errors of the first validation, and in full.      *)
(***************************************************************************)
EditedValues == {"x", "y"}

InitRevalidate ==
    /\ sheetDefinitions = ReferenceSheets
    /\ sheetStates \in {ReferenceStates(referenced) :
                          referenced \in {<<[r |-> "x"]>>, <<[r |-> "x"], [r |-> "y"]>>}}
    /\ existingErrors = <<>>
    /\ dirtyRows = <<>>
    /\ NoResults
    /\ NoBuilder

\* The full validation whose errors the later incremental one is given.
ValidateBeforeEdits ==
    /\ calls = <<>>
    /\ \E promise \in applyValidations(sheetDefinitions, sheetStates) :
          /\ promise.status = "fulfilled"
          /\ calls' = <<[incremental |-> FALSE, states |-> sheetStates,
                         rowIndices |-> {}, promise |-> promise]>>
          /\ existingErrors' = promise.value
    /\ UNCHANGED <<sheetDefinitions, sheetStates, dirtyRows, requiredCall, fullResult,
                   incResult, builderVars, orchVars, standaloneVars>>

\* A cell of a row is changed and the row is marked dirty, as CELL_CHANGED does.
EditCell ==
    /\ Len(calls) = 1
    /\ fullResult.status = "pending"
    /\ incResult.status = "pending"
    /\ \E s \in DOMAIN sheetStates, value \in EditedValues :
         \E r \in DOMAIN sheetStates[s].rows :
            LET column == sheetDefinitions[s].columns[1].id
                row == [c \in {column} |-> value]
            IN  /\ sheetStates[s].rows[r] # row
                /\ sheetStates' = [sheetStates EXCEPT ![s].rows = SetRow(@, r - 1, row)]
                /\ dirtyRows' = MarkDirty(Some(dirtyRows), sheetStates[s].sheetId, r - 1).value
    /\ UNCHANGED <<sheetDefinitions, existingErrors, requiredCall, fullResult, incResult,
                   calls, builderVars, orchVars, standaloneVars>>

NextRevalidate ==
    \/ ValidateBeforeEdits
    \/ EditCell
    \/ Len(calls) = 1 /\ CallApplyValidations
    \/ Len(calls) = 1 /\ CallApplyValidationsToSpecificRows

SpecRevalidate == InitRevalidate /\ [][NextRevalidate]_vars

\* C25: when the existing errors are the full validation of the sheet data before
\* the edits and every edited row is in the dirty-row map, the incremental
\* validation of the edited data returns the same set of errors as its full
\* validation, reference columns included.
C25_IncrementalEqualsFull ==
    (Len(calls) = 1 /\ fullResult.status = "fulfilled" /\ incResult.status = "fulfilled") =>
        Range(incResult.value) = Range(fullResult.value)

(***************************************************************************)
(* How often a queued action reaches the reducer.                          *)
(***************************************************************************)
\* The queued actions that the dispatchChange calls have passed to dispatch.
DispatchedSteps ==
    SelectSeq(dispatchLog, LAMBDA entry : /\ entry.by = "dispatchChange"
                                          /\ entry.action.type # "VALIDATION_STARTED")

\* C26: across the dispatchChange calls of one orchestrator every queued action is
\* dispatched at most once, so no more actions were dispatched than were queued,
\* and once a call has dispatched the queue each was dispatched exactly once.
C26_EachActionDispatchedOnce ==
    /\ Len(DispatchedSteps) <= Len(buildSteps)
    /\ \A i \in DOMAIN DispatchedSteps :
          Cardinality({j \in DOMAIN DispatchedSteps :
                          DispatchedSteps[j].action = DispatchedSteps[i].action})
              <= Cardinality({n \in DOMAIN buildSteps :
                                 buildSteps[n] = DispatchedSteps[i].action})

(***************************************************************************)
(* Transformation of sheets: applyTransformations on all rows, and         *)
(* applyTransformationsToSingleRow on one row after the other.  The cells  *)
(* hold strings; CharsOf gives the characters a pipeline works on.  rest   *)
(* is a custom transformer that drops the first character, so that         *)
(* applying a pipeline twice shows.                                        *)
(***************************************************************************)
CharsOf ==
    [text \in {"", "a", "A", " ", "aa", "aA", "a ", "Aa", "AA", "A ", " a", " A", "  "} |->
        CASE text = "" -> <<>>
          [] text = "a" -> <<"a">>
          [] text = "A" -> <<"A">>
          [] text = " " -> <<" ">>
          [] text = "aa" -> <<"a", "a">>
          [] text = "aA" -> <<"a", "A">>
          [] text = "a " -> <<"a", " ">>
          [] text = "Aa" -> <<"A", "a">>
          [] text = "AA" -> <<"A", "A">>
          [] text = "A " -> <<"A", " ">>
          [] text = " a" -> <<" ", "a">>
          [] text = " A" -> <<" ", "A">>
          [] text = "  " -> <<" ", " ">>]

TextOf(chars) == CHOOSE text \in DOMAIN CharsOf : CharsOf[text] = chars

\* pipeline.transform(cellValue) on the string of a cell.
transformText(steps, value) == TextOf(pipelineTransform(steps, CharsOf[value]))

\* buildPipelineByColumnId with one pipeline shared by all the columns.
buildPipelineByColumnIdShared(sheetDefinition) ==
    LET columns == sheetDefinition.columns
        steps(c) == IF "transformers" \in DOMAIN c THEN c.transformers ELSE <<>>
    IN  [id \in {columns[i].id : i \in DOMAIN columns} |->
            Flat([i \in 1..Len(columns) |-> steps(columns[i])])]

\* The steps of the pipeline of every column id: those of the last column
\* definition that has the id.
buildPipelineByColumnId(sheetDefinition) ==
    LET columns == sheetDefinition.columns
        steps(c) == IF "transformers" \in DOMAIN c THEN c.transformers ELSE <<>>
        lastOf(id) == CHOOSE i \in DOMAIN columns :
                        /\ columns[i].id = id
                        /\ \A j \in DOMAIN columns : columns[j].id = id => j <= i
    IN  [id \in {columns[i].id : i \in DOMAIN columns} |-> steps(columns[lastOf(id)])]

\* The assignment to the cell of one column: nothing for an empty cell.
transformedCell(row, columnId, pipelineByColumnId) ==
    IF isEmptyCell(cellValue(row, columnId)) THEN row
    ELSE [k \in DOMAIN row |->
            IF k = columnId THEN transformText(pipelineByColumnId[columnId], row[k])
            ELSE row[k]]

\* The forEach of transformRow over the first n columns.
RECURSIVE transformedColumns(_, _, _, _)
transformedColumns(row, pipelineByColumnId, columns, n) ==
    IF n = 0 THEN row
    ELSE transformedCell(transformedColumns(row, pipelineByColumnId, columns, n - 1),
                         columns[n].id, pipelineByColumnId)

transformRow(row, pipelineByColumnId, sheetDefinition) ==
    IF ~hasData(row) THEN row
    ELSE transformedColumns(row, pipelineByColumnId, sheetDefinition.columns,
                            Len(sheetDefinition.columns))

\* The rows after the loops of transformSheet over the first n columns: every
\* row that has data at that point gets the cell of the column assigned.
RECURSIVE transformedRows(_, _, _, _)
transformedRows(rows, pipelineByColumnId, columns, n) ==
    IF n = 0 THEN rows
    ELSE LET before == transformedRows(rows, pipelineByColumnId, columns, n - 1)
         IN  [r \in 1..Len(before) |->
                IF ~hasData(before[r]) THEN before[r]
                ELSE transformedCell(before[r], columns[n].id, pipelineByColumnId)]

\* transformSheet assigns into the rows it is given and returns that array:
\* the value is both the rows returned and the rows of sheetData after the
\* call.
transformSheet(sheetDefinition, sheetData) ==
    transformedRows(sheetData.rows, buildPipelineByColumnId(sheetDefinition),
                    sheetDefinition.columns, Len(sheetDefinition.columns))

\* The sheet definitions of the model have distinct ids, so no sheet state is
\* transformed twice.  The rows of every sheet state returned are the rows
\* array of the sheet state that was found in the argument.
applyTransformations(definitions, states) ==
    LET defined == SelectSeq(definitions, LAMBDA d : FindSheet(states, d.id) # 0)
    IN  [i \in 1..Len(defined) |->
            [sheetId |-> defined[i].id,
             rows |-> transformSheet(defined[i], states[FindSheet(states, defined[i].id)])]]

\* The argument sheetStates after applyTransformations returned: the sheet
\* state that find returned for a definition holds the rows transformSheet
\* assigned into, every other sheet state is as it was given.
sheetStatesAfterApplyTransformations(definitions, states) ==
    [s \in 1..Len(states) |->
        LET found == {d \in DOMAIN definitions :
                        /\ definitions[d].id = states[s].sheetId
                        /\ FindSheet(states, definitions[d].id) = s}
        IN  IF found = {} THEN states[s]
            ELSE [states[s] EXCEPT
                    !.rows = transformSheet(definitions[CHOOSE d \in found : TRUE], states[s])]]

applyTransformationsToSingleRow(definitions, states, targetSheetId, targetRowIndex) ==
    [s \in 1..Len(states) |->
        LET found == {d \in DOMAIN definitions : definitions[d].id = targetSheetId}
        IN  IF states[s].sheetId # targetSheetId \/ found = {} THEN states[s]
            ELSE LET sheetDefinition ==
                         definitions[CHOOSE d \in found : \A e \in found : d <= e]
                 IN  IF targetRowIndex + 1 \in DOMAIN states[s].rows
                     THEN [states[s] EXCEPT
                             !.rows = SetRow(@, targetRowIndex,
                                             transformRow(@[targetRowIndex + 1],
                                                 buildPipelineByColumnId(sheetDefinition),
                                                 sheetDefinition))]
                     ELSE states[s]]

WithTransformers(column, transformers) == column @@ [transformers |-> transformers]

Step(name) == [transformer |-> name]

\* Sheet s1 with a pipeline on a and none or one on b, sheet s2 with one on r.
TransformedSheets ==
    {<<[id |-> "s1", columns |-> <<WithTransformers(TextColumn("a"), onA), columnB>>],
       [id |-> "s2", columns |-> <<WithTransformers(TextColumn("r"), <<Step("upcase")>>)>>]>> :
        onA \in {<<Step("strip")>>, <<Step("rest")>>, <<Step("strip"), Step("initial")>>},
        columnB \in {TextColumn("b"), WithTransformers(TextColumn("b"), <<Step("upcase")>>)}}

\* Rows of s1: without data; b missing; a empty; both cells with text; a cell
\* that strip empties, alone and next to text.
TransformedRowCatalog ==
    {[a |-> "", b |-> ""], [a |-> " a"], [a |-> "", b |-> "aA"], [a |-> "aA", b |-> "a "],
     [a |-> " "], [a |-> " ", b |-> "a"]}

\* The states of s1, of s2 with or without a row, and of a sheet s3 that has no
\* definition.
TransformedStates ==
    {<<[sheetId |-> "s1", rows |-> rows]>> \o s2 \o <<[sheetId |-> "s3", rows |-> <<[a |-> "a"]>>]>> :
        rows \in SeqsUpTo(TransformedRowCatalog, MaxRows),
        s2 \in {<<>>, <<[sheetId |-> "s2", rows |-> <<[r |-> "a"]>>]>>}}

InitTransform ==
    /\ sheetDefinitions \in TransformedSheets
    /\ sheetStates \in TransformedStates
    /\ existingErrors = <<>>
    /\ dirtyRows = <<>>
    /\ NoResults
    /\ initialState = buildInitialState(sheetDefinitions)
    /\ buildSteps = <<>>
    /\ builtState = NotBuilt
    /\ NoConfirmation
    /\ state = initialState
    /\ NoOrchestration
    /\ persistence = <<>>
    /\ loadedState = [status |-> "pending"]
    /\ pipeline = [steps |-> <<>>]
    /\ transformed = [called |-> FALSE]
    /\ transformations = [batch |-> None, single |-> sheetStates,
                          next |-> [s \in DOMAIN sheetStates |-> 0],
                          given |-> sheetStates,
                          passed |-> [s \in DOMAIN sheetStates |-> <<>>]]

\* The sheet states the single-row calls have built so far, after the batch
\* call assigned into the rows of the caller: a row that no single-row call
\* has replaced yet is still the row object of the caller and shows the
\* assignment; a row that a single-row call replaced is a copy, or a row
\* without data, which the batch call leaves as it is.
sharedRowsAfter(single, next, statesAfter) ==
    [s \in DOMAIN single |->
        [single[s] EXCEPT
           !.rows = [r \in DOMAIN @ |-> IF r > next[s] THEN statesAfter[s].rows[r] ELSE @[r]]]]

\* applyTransformations is called on the sheet states of the caller: it
\* returns the transformed sheets and leaves the transformed rows in its
\* argument.
CallApplyTransformations ==
    /\ ~transformations.batch.defined
    /\ sheetStates' = sheetStatesAfterApplyTransformations(sheetDefinitions, sheetStates)
    /\ transformations' =
          [transformations EXCEPT
             !.batch = Some(applyTransformations(sheetDefinitions, sheetStates)),
             !.single = sharedRowsAfter(@, transformations.next, sheetStates')]
    /\ UNCHANGED <<sheetDefinitions, existingErrors, dirtyRows, requiredCall, fullResult,
                   incResult, calls, builderVars, orchVars, persistence, loadedState, pipeline,
                   transformed>>

\* The next row of one of the sheet states is transformed in the states built
\* so far; the call copies the row and the rows array and assigns into neither.
CallApplyTransformationsToSingleRow ==
    /\ \E s \in DOMAIN sheetStates :
          /\ transformations.next[s] < Len(sheetStates[s].rows)
          /\ transformations' =
                [transformations EXCEPT
                   !.single = applyTransformationsToSingleRow(sheetDefinitions, @,
                                  sheetStates[s].sheetId, transformations.next[s]),
                   !.next[s] = @ + 1,
                   !.passed[s] = Append(@, transformations.single[s].rows[
                                              transformations.next[s] + 1])]
    /\ UNCHANGED <<sheetDefinitions, engineVars, builderVars, orchVars, persistence,
                   loadedState, pipeline, transformed>>

NextTransform == CallApplyTransformations \/ CallApplyTransformationsToSingleRow

SpecTransform == InitTransform /\ [][NextTransform]_vars

\* stepN(...step1(chars)) for the first n steps.
RECURSIVE ComposedSteps(_, _, _)
ComposedSteps(steps, chars, n) ==
    IF n = 0 THEN chars ELSE stepTransform(steps[n], ComposedSteps(steps, chars, n - 1))

\* The row as the claim describes it: untouched without data, and otherwise
\* every non-empty cell of a column of the sheet run once through the pipeline
\* of the column.
ExpectedRow(sheetDefinition, row) ==
    LET columns == sheetDefinition.columns
        column(k) == columns[CHOOSE i \in DOMAIN columns : columns[i].id = k]
        steps(k) == IF "transformers" \in DOMAIN column(k) THEN column(k).transformers
                    ELSE <<>>
    IN  IF \A k \in DOMAIN row : row[k] = "" THEN row
        ELSE [k \in DOMAIN row |->
                IF row[k] = "" \/ ~\E i \in DOMAIN columns : columns[i].id = k THEN row[k]
                ELSE TextOf(ComposedSteps(steps(k), CharsOf[row[k]], Len(steps(k))))]

\* Every row index of every sheet state was passed to the single-row transform.
EveryRowTransformed ==
    \A s \in DOMAIN sheetStates : transformations.next[s] = Len(sheetStates[s].rows)

\* C27: for every sheet that has a definition the batch transform returns, for
\* the rows it was given, a row without data as it was and a row with data with
\* every non-empty cell run once through the pipeline of its column and every
\* empty cell as it was; the single-row transform applied to each row index in
\* turn returns the same of the row it was passed; so the two return the same
\* row wherever they were passed the same row.
C27_BatchEqualsRowByRow ==
    (transformations.batch.defined /\ EveryRowTransformed) =>
        \A d \in DOMAIN sheetDefinitions :
            LET id == sheetDefinitions[d].id
                s == FindSheet(transformations.given, id)
                batch == transformations.batch.value
                given == transformations.given[s].rows
                passed == transformations.passed[s]
                single == transformations.single[s].rows
            IN  s # 0 =>
                  /\ FindSheet(batch, id) # 0
                  /\ Len(batch[FindSheet(batch, id)].rows) = Len(given)
                  /\ Len(single) = Len(given)
                  /\ Len(passed) = Len(given)
                  /\ \A r \in DOMAIN given :
                        /\ batch[FindSheet(batch, id)].rows[r]
                              = ExpectedRow(sheetDefinitions[d], given[r])
                        /\ single[r] = ExpectedRow(sheetDefinitions[d], passed[r])
                        /\ passed[r] = given[r] =>
                              single[r] = batch[FindSheet(batch, id)].rows[r]

\* A row without data stayed as it was next to a row whose cells went through
\* the pipelines that drop the first character of a and put b in capitals, in
\* the batch call and in the single-row calls that were passed the same rows;
\* the batch call left the transformed rows in its argument.
C27_Witness ==
    /\ transformations.batch.defined
    /\ EveryRowTransformed
    /\ transformations.given[1].rows = <<[a |-> "", b |-> ""], [a |-> "aA", b |-> "a "]>>
    /\ transformations.passed[1] = transformations.given[1].rows
    /\ transformations.batch.value[1].rows = <<[a |-> "", b |-> ""], [a |-> "A", b |-> "A "]>>
    /\ transformations.single[1].rows = transformations.batch.value[1].rows
    /\ sheetStates[1].rows = transformations.batch.value[1].rows

====
